---- MODULE Spec2Model ----
(***************************************************************************)
(* A model of the decision and control plane of the LLM routing gateway:   *)
(* the sliding-window rate limiter and the quota manager built on it, the  *)
(* circuit breakers and the router, the streaming connection manager and   *)
(* the WebSocket handler, and the chat-completion endpoints.               *)
(*                                                                         *)
(* Every coroutine is cut at its suspension points: an await of a cache    *)
(* RPC, of a transport call, of a contended lock or of the producer.  The  *)
(* code between two suspension points runs atomically on the event loop    *)
(* and is one action.  The clock is read in seconds and advances in steps  *)
(* of TickSeconds; a clock value read right before a cache RPC is taken at *)
(* the instant of the RPC.                                                 *)
(***************************************************************************)
EXTENDS Integers, Sequences, FiniteSets, TLC

(***************************************************************************)
(* Bounds of the model.                                                    *)
(***************************************************************************)
NumTasks == 2
MaxTime == 60
MaxTokens == 2
MaxLimit == 2
MaxCalls == 2

Tasks == 1..NumTasks
\* one key: the calls of interest are those on the same key, and the windows
\* of different keys share the limiter's lock and nothing else
Keys == {"k1"}
Limiters == {"minute", "hour", "day"}
LimiterOrder == <<"minute", "hour", "day">>
NoTask == 0

(***************************************************************************)
(* orchestrator/quota: program constants.                                  *)
(***************************************************************************)
MinuteWindow == 60
HourWindow == 3600
DayWindow == 86400
CacheTtlSlack == 60

\* the clock advances by half a minute window
TickSeconds == MinuteWindow \div 2

VARIABLES
    \* orchestrator/quota
    now,             \* time.time(), in seconds
    config,          \* per window, the limit of the limiter that _setup_limiters
                     \* built for it, 0 when it built none
    cacheTs,         \* the cache backend: per limiter and key, [data, expires]
    localTs,         \* SlidingWindowLimiter._local_store, per limiter and key
    lockHolder,      \* SlidingWindowLimiter._lock, per limiter: the holding task
    task,            \* per task: the position of its coroutine and its locals
    admLog,          \* history: per key, the admission times of direct consumes
    stats,           \* history: per key, consume_quota calls returned / allowed
    \* orchestrator/routing
    cb,              \* Router._circuit_breakers: per model [count, state, last]
    routed,          \* the result of the route call made in the last step, if any
    tripped,         \* history: the models that had threshold failures in a row
    status,          \* the result of the get_model_status call made in the last
                     \* step, if any, with the breaker as the call found it
    failedIds,       \* the failed_model_ids of the route_with_fallback call made
                     \* in the last step, if any
    \* orchestrator/streaming
    conn,            \* per connection: where its handle_connection stands
    clients,         \* ConnectionManager._clients: the registered client ids
    client,          \* per connection, its StreamingClient: [state, current]
    mgrLock,         \* ConnectionManager._lock: its holder, or NoClient
    requestClients,  \* ConnectionManager._request_clients: request id -> client ids
    activeStreams,   \* WebSocketHandler._active_streams: request id -> task
    cancelled,       \* WebSocketHandler._cancelled_requests
    stask,           \* the _stream_response tasks, in order of creation
    frames,          \* history: per client and request id, the chunk and terminal
                     \* frames delivered for the request while a stream of it
                     \* exists, up to the first frame that breaks their order
    hadError,        \* history: the clients that were sent an error terminal event
    \* orchestrator/api
    apiLast,         \* the chat completion served last, if any: the identity it
                     \* came from, the model it went to, and (history) whether
                     \* the identity's quota was exhausted when it was served
    \* orchestrator/streaming: the disconnect calls made after a failed send
    caller,          \* per sender: the position of its send_to_client or ping
    closes,          \* history: per client, the closes of its transport
    callbacks,       \* history: per client, the calls of on_disconnect
    \* orchestrator/cache
    kvStore,         \* the backend's entries: per key [has, value, created, ttl]
    kvGot,           \* the result of the get made last, if any, with the entry
                     \* as the get found it and the time of the get
    incr,            \* per task: the position of its increment and its locals
    incrRet,         \* history: per key, the values the increments returned
    \* orchestrator/analytics
    budget,          \* BudgetManager.config: the limit of each period, hard_limit
    spent,           \* the storage: per period, the cost summed over its window
    verdict,         \* the check_budget_allowed call made last, if any
    \* orchestrator/analytics: the collector
    storage,         \* AnalyticsCollector.storage is set
    buffer,          \* AnalyticsCollector.buffer, the events by their number
    written,         \* the event table: per event, the rows inserted for it
    recorded,        \* history: the events passed to record_routing so far
    worker,          \* per thread: the position of its collector call
    lastRead,        \* the read-path query answered last, if any
    down,            \* the application has shut down
    \* orchestrator/http
    http,            \* HttpClient.request: its position, the loop variable
                     \* and (history) the outcome of each attempt made, with
                     \* the sleep that followed it
    \* orchestrator/resilience
    hours,           \* datetime.utcnow(), in hours
    memoryCache,     \* OfflineCache._memory_cache[source]
    cacheFile,       \* the cache file of the source
    lastStore,       \* history: the payload of the most recent store
    retrieved,       \* the retrieve or retrieve_stale made last, if any
    \* orchestrator/quota: the manager's configuration and its other calls
    requests,        \* QuotaManager.config: requests_per_minute, _hour, _day
    admin,           \* the reset_quota or check_quota call under way, if any
    resetMark,       \* history: the reset_quota made last, if any
    quotaReport,     \* the result of the check_quota returned last, if any
    cacheOk,         \* the limiters have a cache and its get and set answer
    \* orchestrator/routing/scorer.py
    scored,          \* the score_models call made last, if any: the candidates
                     \* as passed and the list returned
    \* orchestrator/resolution
    resolved,        \* the resolve call made last, if any: the source name,
                     \* the catalog in its iteration order, the canonical id
    \* orchestrator/cache/memory.py with max_size
    bounded,         \* an InMemoryCache: its max_size (0: none), its _store as
                     \* the [key, created] items in dict order, and (history)
                     \* the evictions of the call made last
    \* orchestrator/cache/base.py: get_or_set
    fill,            \* per task the position of its get_or_set and its locals;
                     \* (history) per key the factory calls made and the
                     \* values returned
    \* orchestrator/streaming: the heartbeat
    beat             \* _heartbeat_loop: its position, the clients of the
                     \* snapshot still to ping, the disconnected list, and
                     \* (history) the snapshot, the clients sent a ping, the
                     \* clients whose ping raised, the ticks completed

quotaVars == <<now, config, cacheTs, localTs, lockHolder, task, admLog, stats>>
\* the quota state but the clock
quotaStores == <<config, cacheTs, localTs, lockHolder, task, admLog, stats>>
routerVars == <<cb, routed, tripped, status, failedIds>>
streamVars == <<conn, clients, client, mgrLock, requestClients, activeStreams,
                cancelled, stask, frames, hadError>>
apiVars == <<apiLast>>
callVars == <<caller, closes, callbacks>>
\* what the subsystems of the first sections leave alone
kvVars == <<kvStore, kvGot, incr, incrRet>>
budgetVars == <<budget, spent, verdict>>
collVars == <<storage, buffer, written, recorded, worker, lastRead, down>>
httpVars == <<http>>
offlineVars == <<hours, memoryCache, cacheFile, lastStore, retrieved>>
adminVars == <<requests, admin, resetMark, quotaReport, cacheOk>>
lastVars == <<scored, resolved, bounded, fill, beat>>
newerVars == <<collVars, httpVars, offlineVars, adminVars, lastVars>>
\* the state of the sections up to the budget manager
earlierVars == <<quotaVars, routerVars, streamVars, apiVars, callVars, kvVars,
                 budgetVars>>
laterVars == <<kvVars, budgetVars, newerVars>>
otherVars == <<callVars, laterVars>>
vars == <<quotaVars, routerVars, streamVars, apiVars, otherVars>>

WindowOf(l) ==
    CASE l = "minute" -> MinuteWindow
      [] l = "hour" -> HourWindow
      [] l = "day" -> DayWindow

NoEntry == [data |-> <<>>, expires |-> -1]
\* denied: the windows whose result is a denial; wrote: history, the windows
\* whose recorded usage the call has increased
\* RateLimitResult.retry_after of a result that has none
NoRetry == -1

IdleTask ==
    [phase |-> "idle", mode |-> "none", lim |-> "minute", key |-> "k1",
     tokens |-> 1, pend |-> <<>>, denied |-> {}, wrote |-> {}, allowed |-> TRUE,
     retry |-> NoRetry]

Max(a, b) == IF a >= b THEN a ELSE b
Min(a, b) == IF a <= b THEN a ELSE b

RECURSIVE Repeat(_, _)
Repeat(x, n) == IF n = 0 THEN <<>> ELSE <<x>> \o Repeat(x, n - 1)

(***************************************************************************)
(* SlidingWindowLimiter                                                    *)
(***************************************************************************)

\* _clean_timestamps: keep the timestamps inside the window ending at nowv
CleanTimestamps(ts, nowv, window) ==
    SelectSeq(ts, LAMBDA x : x > nowv - window)

\* CacheEntry.is_expired / cache.get: the entry's value, None once expired
CacheGet(l, k) ==
    IF cacheOk /\ cacheTs[l][k].expires >= now THEN cacheTs[l][k].data ELSE <<>>

\* _get_timestamps: the cache's list when it is truthy, else the local store
GetTimestamps(l, k) ==
    IF CacheGet(l, k) # <<>> THEN CacheGet(l, k) ELSE localTs[l][k]

\* a consume that does not wait for the lock
LockIgnored(l) == TRUE

\* the lock of consume is free for a task to take
LockFree(l) == lockHolder[l] = NoTask

\* an admission test that is off by one
ConsumeFitsOffByOne(count, tokens, limit) == count + tokens <= limit + 1

\* the admission test of consume
ConsumeFits(count, tokens, limit) == count + tokens <= limit

\* check: the result for key k at the current instant
SwCheck(l, k) ==
    LET count == Len(CleanTimestamps(GetTimestamps(l, k), now, WindowOf(l)))
    IN  [allowed |-> count < config[l],
         remaining |-> Max(0, config[l] - count)]

\* _set_timestamps: cache.set with ttl window + 60, then the local store
SetTimestamps(l, k, ts) ==
    /\ cacheTs' = IF cacheOk
                   THEN [cacheTs EXCEPT ![l][k] =
                            [data |-> ts, expires |-> now + WindowOf(l) + CacheTtlSlack]]
                   ELSE cacheTs
    /\ localTs' = [localTs EXCEPT ![l][k] = ts]

(***************************************************************************)
(* Steps shared by a direct consume on a limiter and by consume_quota.     *)
(***************************************************************************)

\* the limiters the manager has built: one per window with a positive limit
EnabledSeq == SelectSeq(LimiterOrder, LAMBDA l : config[l] > 0)

IndexOf(l) == CHOOSE i \in DOMAIN LimiterOrder : LimiterOrder[i] = l

\* the enabled limiters that follow l in minute, hour, day order
After(l) == SelectSeq(EnabledSeq, LAMBDA m : IndexOf(m) > IndexOf(l))

\* _build_result: allowed unless some window's result is a denial
BuildAllowed(denied) == denied = {}

\* a denial that tells the caller to retry at once
RetryAfterNone(ts, window) == 0

\* consume: the retry_after of a denial, counted from the oldest timestamp
\* of the window, or from now when there is none
RetryAfter(ts, window) ==
    LET oldest == IF ts # <<>>
                  THEN ts[CHOOSE i \in DOMAIN ts : \A j \in DOMAIN ts : ts[i] <= ts[j]]
                  ELSE now
    IN  Max(0, oldest + window - now)

\* the task record once the consume on limiter l has returned r
AfterConsume(tk, l, r) ==
    LET den2 == IF r.allowed THEN tk.denied ELSE tk.denied \cup {l}
        base == [tk EXCEPT !.denied = den2, !.pend = <<>>, !.tokens = 1]
    IN  IF tk.mode = "quota" /\ After(l) # <<>>
        THEN [base EXCEPT !.phase = "lock", !.lim = Head(After(l))]
        ELSE IF tk.mode = "quota"
        THEN [base EXCEPT !.phase = "done", !.lim = "minute",
                          !.allowed = BuildAllowed(den2)]
        ELSE [IdleTask EXCEPT !.phase = "done", !.mode = "limiter",
                              !.allowed = r.allowed, !.retry = r.retry]

\* the call counters once a task has moved from record old to record new
StatsAfter(old, new) ==
    IF new.phase = "done" /\ new.mode = "quota"
    THEN [stats EXCEPT ![new.key].returned = @ + 1,
                       ![new.key].allowed = @ + (IF new.allowed THEN 1 ELSE 0)]
    ELSE stats

Tick ==
    /\ now + TickSeconds <= MaxTime
    /\ now' = now + TickSeconds
    /\ UNCHANGED <<routerVars, streamVars, apiVars, otherVars>>
    /\ UNCHANGED <<config, cacheTs, localTs, lockHolder, task, admLog, stats>>

\* the clock passes the end of a minute window that began at or after now
WindowElapses ==
    /\ now <= MaxTime
    /\ now' = now + MinuteWindow + 1
    /\ UNCHANGED <<routerVars, streamVars, apiVars, otherVars>>
    /\ UNCHANGED <<config, cacheTs, localTs, lockHolder, task, admLog, stats>>

\* consume, from taking the lock to the cache read and the admission test
ConsumeAcquire(t) ==
    LET tk == task[t]
        l == tk.lim
        ts == CleanTimestamps(GetTimestamps(l, tk.key), now, WindowOf(l))
    IN  /\ tk.phase = "lock"
        /\ LockFree(l)
        /\ IF ConsumeFits(Len(ts), tk.tokens, config[l])
           THEN /\ task' = [task EXCEPT ![t] =
                               [tk EXCEPT !.phase = "write",
                                          !.pend = ts \o Repeat(now, tk.tokens)]]
                /\ lockHolder' = [lockHolder EXCEPT ![l] = t]
                /\ stats' = stats
           ELSE LET new == AfterConsume(tk, l, [allowed |-> FALSE, remaining |-> 0,
                                                retry |-> RetryAfter(ts, WindowOf(l))])
                IN  /\ task' = [task EXCEPT ![t] = new]
                    /\ stats' = StatsAfter(tk, new)
                    /\ lockHolder' = lockHolder
        /\ UNCHANGED <<routerVars, streamVars, apiVars, otherVars>>
        /\ UNCHANGED <<now, config, cacheTs, localTs, admLog>>

\* consume, from the return of the cache read to the release of the lock
ConsumeWrite(t) ==
    LET tk == task[t]
        l == tk.lim
        r == [allowed |-> TRUE, remaining |-> config[l] - Len(tk.pend),
              retry |-> NoRetry]
        new == [AfterConsume(tk, l, r) EXCEPT !.wrote = @ \cup {l}]
    IN  /\ tk.phase = "write"
        /\ SetTimestamps(l, tk.key, tk.pend)
        /\ admLog' = IF tk.mode = "limiter"
                      THEN [admLog EXCEPT ![tk.key] = Append(@, tk.pend[Len(tk.pend)])]
                      ELSE admLog
        /\ lockHolder' = [lockHolder EXCEPT ![l] = NoTask]
        /\ task' = [task EXCEPT ![t] = new]
        /\ stats' = StatsAfter(tk, new)
        /\ UNCHANGED <<routerVars, streamVars, apiVars, otherVars>>
        /\ UNCHANGED <<now, config>>

(***************************************************************************)
(* Calls made directly on the minute limiter.                              *)
(***************************************************************************)

CanCall(t) == task[t].phase \in {"idle", "done"}

LimiterCheck(t, k) ==
    /\ CanCall(t)
    /\ task' = [task EXCEPT ![t] =
                   [IdleTask EXCEPT !.phase = "done", !.mode = "limiter",
                                    !.allowed = SwCheck("minute", k).allowed]]
    /\ UNCHANGED <<routerVars, streamVars, apiVars, otherVars>>
    /\ UNCHANGED <<now, config, cacheTs, localTs, lockHolder, admLog, stats>>

LimiterConsume(t, k, n) ==
    /\ CanCall(t)
    /\ task' = [task EXCEPT ![t] =
                   [IdleTask EXCEPT !.phase = "lock", !.mode = "limiter", !.key = k,
                                    !.tokens = n]]
    /\ UNCHANGED <<routerVars, streamVars, apiVars, otherVars>>
    /\ UNCHANGED <<now, config, cacheTs, localTs, lockHolder, admLog, stats>>

(***************************************************************************)
(* QuotaManager.consume_quota                                              *)
(***************************************************************************)

\* the call up to its first suspension, the cache read of the first check
ConsumeQuota(t, k) ==
    /\ CanCall(t)
    /\ stats[k].started < MaxCalls
    /\ EnabledSeq # <<>>
    /\ task' = [task EXCEPT ![t] =
                   [IdleTask EXCEPT !.phase = "check", !.mode = "quota", !.key = k,
                                    !.lim = Head(EnabledSeq)]]
    /\ stats' = [stats EXCEPT ![k].started = @ + 1]
    /\ UNCHANGED <<routerVars, streamVars, apiVars, otherVars>>
    /\ UNCHANGED <<now, config, cacheTs, localTs, lockHolder, admLog>>

\* one check of the first phase: a denial returns, a pass goes to the next
\* window's check and after the last one to the consume of the first window
QuotaCheck(t) ==
    LET tk == task[t]
        l == tk.lim
        r == SwCheck(l, tk.key)
        new == IF ~r.allowed
               THEN [tk EXCEPT !.denied = {l}, !.phase = "done", !.lim = "minute",
                               !.allowed = BuildAllowed({l})]
               ELSE IF After(l) # <<>>
               THEN [tk EXCEPT !.lim = Head(After(l))]
               ELSE [tk EXCEPT !.phase = "lock", !.lim = Head(EnabledSeq)]
    IN  /\ tk.phase = "check"
        /\ task' = [task EXCEPT ![t] = new]
        /\ stats' = StatsAfter(tk, new)
        /\ UNCHANGED <<routerVars, streamVars, apiVars, otherVars>>
        /\ UNCHANGED <<now, config, cacheTs, localTs, lockHolder, admLog>>

(***************************************************************************)
(* QuotaManager.reset_quota, check_quota and update_config.  reset_quota   *)
(* and check_quota go through the limiters one step each; update_config    *)
(* is synchronous.                                                         *)
(***************************************************************************)
NoAdmin == [pc |-> "idle", lim |-> "minute", key |-> "k1",
            remaining |-> [l \in Limiters |-> 0], mark |-> FALSE]
NoMark == [done |-> FALSE, key |-> "k1", quiet |-> FALSE, started |-> 0]
NoReportYet == [called |-> FALSE, key |-> "k1", afterReset |-> FALSE,
                remaining |-> [l \in Limiters |-> 0]]

\* what the calls of this section leave alone besides the quota state
AdminFrame ==
    UNCHANGED <<routerVars, streamVars, apiVars, callVars, kvVars, budgetVars,
                collVars, httpVars, offlineVars, cacheOk, lastVars>>

\* a reset that leaves the limiter's local store alone
LocalAfterResetKept(l, k) == localTs

\* SlidingWindowLimiter.reset: self._local_store.pop(key, None)
LocalAfterReset(l, k) == [localTs EXCEPT ![l][k] = <<>>]

\* reset_quota(k) up to its first await; with no limiter it returns at once
ResetQuota(k) ==
    /\ admin.pc = "idle"
    /\ resetMark' = [done |-> EnabledSeq = <<>>, key |-> k,
                     quiet |-> \A t \in Tasks : CanCall(t),
                     started |-> stats[k].started]
    /\ admin' = IF EnabledSeq = <<>> THEN NoAdmin
                ELSE [NoAdmin EXCEPT !.pc = "reset", !.key = k,
                                     !.lim = Head(EnabledSeq)]
    /\ quotaReport' = NoReportYet
    /\ AdminFrame
    /\ UNCHANGED <<quotaVars, requests>>

\* the reset of one limiter: the cache entry is deleted and the local one
\* popped; after the last limiter reset_quota returns
ResetLimiter ==
    LET l == admin.lim
        k == admin.key
    IN  /\ admin.pc = "reset"
        /\ cacheTs' = IF cacheOk THEN [cacheTs EXCEPT ![l][k] = NoEntry] ELSE cacheTs
        /\ localTs' = LocalAfterReset(l, k)
        /\ admin' = IF After(l) # <<>> THEN [admin EXCEPT !.lim = Head(After(l))]
                    ELSE NoAdmin
        /\ resetMark' = [resetMark EXCEPT !.done = After(l) = <<>>]
        /\ AdminFrame
        /\ UNCHANGED <<now, config, lockHolder, task, admLog, stats>>
        /\ UNCHANGED <<requests, quotaReport>>

\* _build_result: the remaining of each window, the configured limit where
\* no limiter gave a result
BuildRemaining(remaining) ==
    [l \in Limiters |-> IF config[l] > 0 THEN remaining[l] ELSE requests[l]]

\* check_quota(k) up to its first await; with no limiter it returns at once
CheckQuota(k) ==
    /\ admin.pc = "idle"
    /\ admin' = IF EnabledSeq = <<>> THEN NoAdmin
                ELSE [NoAdmin EXCEPT !.pc = "check", !.key = k,
                                     !.lim = Head(EnabledSeq),
                                     !.mark = resetMark.done]
    /\ quotaReport' =
           IF EnabledSeq = <<>>
           THEN [called |-> TRUE, key |-> k, afterReset |-> resetMark.done,
                 remaining |-> BuildRemaining(NoAdmin.remaining)]
           ELSE NoReportYet
    /\ AdminFrame
    /\ UNCHANGED <<quotaVars, requests, resetMark>>

\* the check of one limiter; after the last one check_quota returns the
\* result that _build_result makes of them
CheckLimiter ==
    LET l == admin.lim
        rem == [admin.remaining EXCEPT ![l] = SwCheck(l, admin.key).remaining]
    IN  /\ admin.pc = "check"
        /\ admin' = IF After(l) # <<>>
                    THEN [admin EXCEPT !.lim = Head(After(l)), !.remaining = rem]
                    ELSE NoAdmin
        /\ quotaReport' =
               IF After(l) # <<>> THEN quotaReport
               ELSE [called |-> TRUE, key |-> admin.key,
                     afterReset |-> admin.mark,
                     remaining |-> BuildRemaining(rem)]
        /\ AdminFrame
        /\ UNCHANGED <<quotaVars, requests, resetMark>>

\* update_config(requests_per_<l> = n), made while no quota call is under
\* way: _setup_limiters builds a new limiter, with an empty local store, for
\* every window whose limit is positive, and leaves the others as they are
UpdateConfig(l, n) ==
    LET new == [requests EXCEPT ![l] = Max(0, n)]
    IN  /\ admin.pc = "idle"
        /\ \A t \in Tasks : CanCall(t)
        /\ requests' = new
        /\ config' = [m \in Limiters |-> IF new[m] > 0 THEN new[m] ELSE config[m]]
        /\ localTs' = [m \in Limiters |->
                          IF new[m] > 0 THEN [k \in Keys |-> <<>>] ELSE localTs[m]]
        /\ task' = [t \in Tasks |-> IdleTask]
        /\ resetMark' = NoMark
        /\ quotaReport' = NoReportYet
        /\ AdminFrame
        /\ UNCHANGED <<now, cacheTs, lockHolder, admLog, stats, admin>>

\* the cache stops answering: from here on, as for limiters built with no
\* cache at all, _get_timestamps and _set_timestamps use the local store only
CacheFails ==
    /\ cacheOk
    /\ cacheOk' = FALSE
    /\ UNCHANGED <<routerVars, streamVars, apiVars, callVars, kvVars, budgetVars,
                   collVars, httpVars, offlineVars, lastVars>>
    /\ UNCHANGED <<quotaVars, requests, admin, resetMark, quotaReport>>

\* the cache answers again, with the entries it had
CacheRecovers ==
    /\ ~cacheOk
    /\ cacheOk' = TRUE
    /\ UNCHANGED <<routerVars, streamVars, apiVars, callVars, kvVars, budgetVars,
                   collVars, httpVars, offlineVars, lastVars>>
    /\ UNCHANGED <<quotaVars, requests, admin, resetMark, quotaReport>>

\* the manager as initialize leaves it: the limiters are built from the
\* configuration
AdminUnused ==
    /\ requests = config
    /\ admin = NoAdmin
    /\ resetMark = NoMark
    /\ quotaReport = NoReportYet
    /\ cacheOk = TRUE

(***************************************************************************)
(* orchestrator/routing/router.py: CircuitBreaker and Router               *)
(***************************************************************************)
NumModels == 2

Models == 1..NumModels

FailureThreshold == 3
RecoveryTimeout == 60
FallbackCount == 2

\* failures in a row per model: enough to trip a circuit and fail once more
MaxFailures == FailureThreshold + 1
NoTime == -1

\* the model whose circuit breaker is followed on its own
BreakerModels == {1}

NewBreaker == [count |-> 0, state |-> "closed", last |-> NoTime]
NoRoute == [cands |-> {}, ranked |-> <<>>]

\* the composite score of a model under the profile in use: the lower id
\* scores higher
ScoreOf(m) == NumModels - m

\* a read that moves open to half_open whatever the time
StateReadEarly(b) == IF b.state = "open" THEN [b EXCEPT !.state = "half_open"] ELSE b

\* CircuitBreaker.state: the read that moves open to half_open once
\* recovery_timeout has elapsed since the last failure
StateRead(b) ==
    IF b.state = "open" /\ b.last # NoTime /\ now - b.last >= RecoveryTimeout
    THEN [b EXCEPT !.state = "half_open"]
    ELSE b

\* a success that closes the circuit and keeps the failure count
RecordSuccessKeepsCount(b) == [b EXCEPT !.state = "closed"]

\* CircuitBreaker.record_success
RecordSuccessOn(b) == [b EXCEPT !.count = 0, !.state = "closed"]

\* a failure that opens the circuit one failure late
RecordFailureLate(b) ==
    [b EXCEPT !.count = @ + 1, !.last = now,
              !.state = IF b.count + 1 > FailureThreshold THEN "open" ELSE @]

\* a failure that starts the count again when the circuit is half-open
RecordFailureRestarts(b) ==
    IF b.state = "half_open"
    THEN [b EXCEPT !.count = 1, !.last = now]
    ELSE [b EXCEPT !.count = @ + 1, !.last = now,
                   !.state = IF b.count + 1 >= FailureThreshold THEN "open" ELSE @]

\* CircuitBreaker.record_failure
RecordFailureOn(b) ==
    [b EXCEPT !.count = @ + 1, !.last = now,
              !.state = IF b.count + 1 >= FailureThreshold THEN "open" ELSE @]

\* an availability test that lets open circuits through
IsAvailableAlways(b) == TRUE

\* CircuitBreaker.is_available, on the breaker as the state read leaves it
IsAvailable(b) == StateRead(b).state \in {"closed", "half_open"}

\* the best model of a non-empty pool: highest score, the first of the list
\* (the candidates are listed by ascending id) among equal scores
Best(pool) ==
    CHOOSE m \in pool :
        \A o \in pool : ScoreOf(m) > ScoreOf(o) \/ (ScoreOf(m) = ScoreOf(o) /\ m <= o)

\* CompositeScorer.rank_models: the pool by descending score, cut at limit
RECURSIVE RankModels(_, _)
RankModels(pool, limit) ==
    IF pool = {} \/ limit = 0 THEN <<>>
    ELSE <<Best(pool)>> \o RankModels(pool \ {Best(pool)}, limit - 1)

\* a route that never falls back on the full candidate list
PoolStrict(cands) == {m \in cands : IsAvailable(cb[m])}

\* Router.route: the candidates with an available circuit, or all of them
\* when no circuit is available
Pool(cands) ==
    IF {m \in cands : IsAvailable(cb[m])} = {}
    THEN cands
    ELSE {m \in cands : IsAvailable(cb[m])}

\* Router.route: the result for the candidate list cands
RouteResult(cands) ==
    [cands |-> cands, ranked |-> RankModels(Pool(cands), FallbackCount + 1)]

\* Router.route: the breakers once is_available has read the state of each
\* candidate's
BreakersRead(cands) ==
    [m \in Models |-> IF m \in cands THEN StateRead(cb[m]) ELSE cb[m]]

NoStatus == [model |-> 0, state |-> "none", available |-> FALSE, before |-> NewBreaker]
NoFailed == [ids |-> {}, called |-> FALSE]

\* the step is no get_model_status and no route_with_fallback call
NoReport == status' = NoStatus /\ failedIds' = NoFailed

\* Router.route on the candidate list cands
Route(cands) ==
    /\ cb' = BreakersRead(cands)
    /\ routed' = RouteResult(cands)
    /\ NoReport
    /\ UNCHANGED <<quotaStores, streamVars, apiVars, otherVars>>
    /\ UNCHANGED <<tripped, now>>

\* a filter that lets the failed models through
ExcludeNone(cands, failed) == cands

\* Router.route_with_fallback: the candidates that have not failed
Exclude(cands, failed) == cands \ failed

\* Router.route_with_fallback on the candidate list cands with
\* failed_model_ids failed
RouteWithFallback(cands, failed) ==
    /\ IF Exclude(cands, failed) = {}
       THEN cb' = cb /\ routed' = NoRoute
       ELSE /\ cb' = BreakersRead(Exclude(cands, failed))
            /\ routed' = RouteResult(Exclude(cands, failed))
    /\ failedIds' = [ids |-> failed, called |-> TRUE]
    /\ status' = NoStatus
    /\ UNCHANGED <<quotaStores, streamVars, apiVars, otherVars>>
    /\ UNCHANGED <<tripped, now>>

\* Router.get_model_status
GetModelStatus(m) ==
    /\ cb' = [cb EXCEPT ![m] = StateRead(@)]
    /\ status' = [model |-> m, state |-> StateRead(cb[m]).state,
                  available |-> IsAvailable(StateRead(cb[m])), before |-> cb[m]]
    /\ routed' = NoRoute
    /\ failedIds' = NoFailed
    /\ UNCHANGED <<quotaStores, streamVars, apiVars, otherVars>>
    /\ UNCHANGED <<tripped, now>>

\* Router.record_failure
RecordFailure(m) ==
    /\ cb[m].count < MaxFailures
    /\ cb' = [cb EXCEPT ![m] = RecordFailureOn(@)]
    /\ tripped' = IF cb[m].count + 1 >= FailureThreshold THEN tripped \cup {m} ELSE tripped
    /\ routed' = NoRoute
    /\ NoReport
    /\ UNCHANGED <<quotaStores, streamVars, apiVars, otherVars>>
    /\ UNCHANGED now

\* Router.record_success
RecordSuccess(m) ==
    /\ cb' = [cb EXCEPT ![m] = RecordSuccessOn(@)]
    /\ routed' = NoRoute
    /\ NoReport
    /\ UNCHANGED <<quotaStores, streamVars, apiVars, otherVars>>
    /\ UNCHANGED <<tripped, now>>

\* Router.reset_circuit_breaker
ResetCircuitBreaker(m) ==
    /\ cb' = [cb EXCEPT ![m] = NewBreaker]
    /\ routed' = NoRoute
    /\ NoReport
    /\ UNCHANGED <<quotaStores, streamVars, apiVars, otherVars>>
    /\ UNCHANGED <<tripped, now>>

\* the clock advances while the router is idle
RouterTick ==
    /\ now + TickSeconds <= MaxTime
    /\ now' = now + TickSeconds
    /\ routed' = NoRoute
    /\ NoReport
    /\ UNCHANGED <<cb, tripped>>
    /\ UNCHANGED <<quotaStores, streamVars, apiVars, otherVars>>

\* the router as constructed: no circuit breaker has been created
RouterUnused ==
    /\ cb = [m \in Models |-> NewBreaker]
    /\ routed = NoRoute
    /\ tripped = {}
    /\ status = NoStatus
    /\ failedIds = NoFailed

(***************************************************************************)
(* orchestrator/streaming: ConnectionManager and WebSocketHandler          *)
(*                                                                         *)
(* A connect is cut where it can be suspended: after the capacity test     *)
(* (waiting for the manager's lock) and at the await of the transport's    *)
(* accept, which it makes holding the lock. A stream task is cut at the    *)
(* await of the producer's next item and after the send of its terminal    *)
(* event. Every send succeeds when the client is registered and open.      *)
(***************************************************************************)
MaxConnections == 1
MaxChunks == 2

\* two connections more than the manager admits
Clients == 1..(MaxConnections + 2)
\* the connection that goes on to the message loop
StreamClients == {1}
RequestIds == {"r1", "r2"}
\* the stream tasks of a run, one per chat message
StreamTasks == {1, 2}

NoClient == 0
NoRequest == "none"
NoIndex == -1
Terminals == {"done", "error", "cancelled"}

NewClient == [state |-> "connecting", current |-> NoRequest]
NoStream ==
    [client |-> NoClient, rid |-> NoRequest, pc |-> "none", count |-> 0,
     term |-> "none", flagged |-> FALSE, cancelAccepted |-> FALSE,
     afterError |-> FALSE]

\* chunks with index 0, 1, 2, ... and then at most one terminal event, the last
WellFormed(s) ==
    \A n \in DOMAIN s :
        /\ s[n].type = "chunk" => s[n].index = n - 1
        /\ s[n].type \in Terminals => n = Len(s)

\* ConnectionManager.is_at_capacity
IsAtCapacity == Cardinality(clients) >= MaxConnections

\* the subscribers of request r in the subscriber sets rc
SubscribersIn(rc, r) == IF r \in DOMAIN rc THEN rc[r] ELSE {}

\* the subscribers of request r
Subscribers(r) == SubscribersIn(requestClients, r)

\* a dictionary without key k
Without(f, k) == [x \in DOMAIN f \ {k} |-> f[x]]

\* a dictionary with key k set to v
With(f, k, v) == [x \in DOMAIN f \cup {k} |-> IF x = k THEN v ELSE f[x]]

\* ConnectionManager.send_to_client: whether the message reaches client c
Delivered(c) == c \in clients /\ client[c].state \in {"connected", "streaming"}

\* the frames of client c after the send of frame f for request r
Sent(c, r, f) ==
    IF Delivered(c) /\ WellFormed(frames[c][r])
    THEN [frames EXCEPT ![c][r] = Append(@, f)]
    ELSE frames

\* the tasks of request r that have not sent their terminal event
LiveTasks(r) == {i \in StreamTasks : stask[i].rid = r /\ stask[i].term = "none"}

\* the tasks not yet created
FreeTasks == {i \in StreamTasks : stask[i].pc = "none"}

\* the task that the next asyncio.create_task makes
NewTask == CHOOSE i \in FreeTasks : \A j \in FreeTasks : i <= j

\* ConnectionManager.connect, the capacity test
ConnectCheck(c) ==
    /\ conn[c] = "new"
    /\ conn' = [conn EXCEPT ![c] = IF IsAtCapacity THEN "rejected" ELSE "waiting"]
    /\ UNCHANGED <<quotaVars, routerVars, apiVars, otherVars>>
    /\ UNCHANGED <<clients, client, mgrLock, requestClients, activeStreams,
                   cancelled, stask, frames, hadError>>

\* ConnectionManager.connect, the lock taken and the transport's accept begun
ConnectAccept(c) ==
    /\ conn[c] = "waiting"
    /\ mgrLock = NoClient
    /\ mgrLock' = c
    /\ conn' = [conn EXCEPT ![c] = "accepting"]
    /\ UNCHANGED <<quotaVars, routerVars, apiVars, otherVars>>
    /\ UNCHANGED <<clients, client, requestClients, activeStreams,
                   cancelled, stask, frames, hadError>>

\* ConnectionManager.connect, the client registered and the lock released
ConnectRegister(c) ==
    /\ conn[c] = "accepting"
    /\ clients' = clients \cup {c}
    /\ client' = [client EXCEPT ![c] = [state |-> "connected", current |-> NoRequest]]
    /\ mgrLock' = NoClient
    /\ conn' = [conn EXCEPT ![c] = "registered"]
    /\ UNCHANGED <<quotaVars, routerVars, apiVars, otherVars>>
    /\ UNCHANGED <<requestClients, activeStreams, cancelled, stask,
                   frames, hadError>>

\* WebSocketHandler._cleanup_client: the request ids it marks cancelled
CleanupClient(c) ==
    IF client[c].current # NoRequest /\ client[c].current \in DOMAIN activeStreams
    THEN {client[c].current}
    ELSE {}

\* a pop that finds a client whether or not c is registered
PoppedAlways(c) == TRUE

\* ConnectionManager.disconnect: self._clients.pop(client_id, None) finds c
Popped(c) == c \in clients

\* a disconnect that leaves the subscriber sets as they are
DiscardedNone(rc, c) == rc

\* ConnectionManager.disconnect: c discarded from every subscriber set
Discarded(rc, c) == [r \in DOMAIN rc |-> rc[r] \ {c}]

\* WebSocketHandler.handle_connection, its finally clause: _cleanup_client,
\* then ConnectionManager.disconnect
Disconnect(c) ==
    /\ conn[c] = "registered"
    /\ mgrLock = NoClient
    /\ cancelled' = cancelled \cup CleanupClient(c)
    /\ IF Popped(c)
       THEN /\ clients' = clients \ {c}
            /\ client' = [client EXCEPT ![c].state = "closed"]
            /\ requestClients' = Discarded(requestClients, c)
            /\ closes' = [closes EXCEPT ![c] = @ + 1]
            /\ callbacks' = [callbacks EXCEPT ![c] = @ + 1]
       ELSE UNCHANGED <<clients, client, requestClients, closes, callbacks>>
    /\ conn' = [conn EXCEPT ![c] = "closed"]
    /\ UNCHANGED <<quotaVars, routerVars, apiVars, caller, laterVars>>
    /\ UNCHANGED <<mgrLock, activeStreams, stask, frames, hadError>>

\* WebSocketHandler._handle_chat_request for a chat message of client c with
\* request id r
ChatRequest(c, r) ==
    /\ conn[c] = "registered"
    /\ FreeTasks # {}
    /\ requestClients' = With(requestClients, r, Subscribers(r) \cup {c})
    /\ client' = [client EXCEPT ![c] = [state |-> "streaming", current |-> r]]
    /\ stask' = [stask EXCEPT ![NewTask] =
                    [client |-> c, rid |-> r, pc |-> "run", count |-> 0,
                     term |-> "none", flagged |-> r \in cancelled,
                     cancelAccepted |-> FALSE, afterError |-> c \in hadError]]
    /\ activeStreams' = With(activeStreams, r, NewTask)
    /\ frames' = IF \E i \in LiveTasks(r) : stask[i].client = c
                 THEN frames
                 ELSE [frames EXCEPT ![c][r] = <<>>]
    /\ UNCHANGED <<quotaVars, routerVars, apiVars, otherVars>>
    /\ UNCHANGED <<conn, clients, mgrLock, cancelled, hadError>>

\* WebSocketHandler._cancel_request for a cancel message of client c for
\* request id r
CancelRequest(c, r) ==
    /\ conn[c] = "registered"
    /\ IF r \in DOMAIN activeStreams
       THEN /\ cancelled' = cancelled \cup {r}
            /\ stask' = [i \in StreamTasks |->
                            IF i \in LiveTasks(r)
                            THEN [stask[i] EXCEPT !.cancelAccepted = TRUE]
                            ELSE stask[i]]
       ELSE UNCHANGED <<cancelled, stask>>
    /\ UNCHANGED <<quotaVars, routerVars, apiVars, otherVars>>
    /\ UNCHANGED <<conn, clients, client, mgrLock, requestClients, activeStreams,
                   frames, hadError>>

\* WebSocketHandler._stream_response, the producer yields a chunk
StreamChunk(i) ==
    LET t == stask[i] IN
    /\ t.pc = "run"
    /\ t.count < MaxChunks
    /\ IF t.rid \in cancelled
       THEN /\ cancelled' = cancelled \ {t.rid}
            /\ frames' = Sent(t.client, t.rid, [type |-> "cancelled", index |-> t.count])
            /\ stask' = [stask EXCEPT ![i].pc = "finally", ![i].term = "cancelled",
                                      ![i].count = 0]
       ELSE /\ frames' = Sent(t.client, t.rid, [type |-> "chunk", index |-> t.count])
            /\ stask' = [stask EXCEPT ![i].count = @ + 1]
            /\ UNCHANGED cancelled
    /\ UNCHANGED <<quotaVars, routerVars, apiVars, otherVars>>
    /\ UNCHANGED <<conn, clients, client, mgrLock, requestClients, activeStreams,
                   hadError>>

\* WebSocketHandler._stream_response, the producer is exhausted
StreamEnd(i) ==
    LET t == stask[i] IN
    /\ t.pc = "run"
    /\ frames' = Sent(t.client, t.rid, [type |-> "done", index |-> t.count])
    /\ stask' = [stask EXCEPT ![i].pc = "finally", ![i].term = "done",
                              ![i].count = 0]
    /\ UNCHANGED <<quotaVars, routerVars, apiVars, otherVars>>
    /\ UNCHANGED <<conn, clients, client, mgrLock, requestClients, activeStreams,
                   cancelled, hadError>>

\* WebSocketHandler._stream_response, the producer raises
StreamRaise(i) ==
    LET t == stask[i] IN
    /\ t.pc = "run"
    /\ frames' = Sent(t.client, t.rid, [type |-> "error", index |-> NoIndex])
    /\ stask' = [stask EXCEPT ![i].pc = "finally", ![i].term = "error",
                              ![i].count = 0]
    /\ hadError' = IF Delivered(t.client) THEN hadError \cup {t.client} ELSE hadError
    /\ UNCHANGED <<quotaVars, routerVars, apiVars, otherVars>>
    /\ UNCHANGED <<conn, clients, client, mgrLock, requestClients, activeStreams,
                   cancelled>>

\* a finally clause that keeps the active-stream entry
ReleaseStreamKept(r) == activeStreams

\* WebSocketHandler._stream_response, the finally clause on the active streams
ReleaseStream(r) == Without(activeStreams, r)

\* ConnectionManager.unsubscribe_from_request on the subscriber sets
Unsubscribed(c, r) ==
    IF r \notin DOMAIN requestClients THEN requestClients
    ELSE IF requestClients[r] \ {c} = {} THEN Without(requestClients, r)
    ELSE [requestClients EXCEPT ![r] = @ \ {c}]

\* WebSocketHandler._stream_response, the finally clause
StreamFinally(i) ==
    LET t == stask[i] IN
    /\ t.pc = "finally"
    /\ activeStreams' = ReleaseStream(t.rid)
    /\ client' = IF t.client \in clients
                 THEN [client EXCEPT ![t.client] =
                          [state |-> "connected", current |-> NoRequest]]
                 ELSE client
    /\ requestClients' = Unsubscribed(t.client, t.rid)
    /\ stask' = [stask EXCEPT ![i] = [NoStream EXCEPT !.pc = "over"]]
    /\ frames' = IF \E j \in StreamTasks \ {i} :
                       stask[j].client = t.client /\ stask[j].rid = t.rid
                 THEN frames
                 ELSE [frames EXCEPT ![t.client][t.rid] = <<>>]
    /\ UNCHANGED <<quotaVars, routerVars, apiVars, otherVars>>
    /\ UNCHANGED <<conn, clients, mgrLock, cancelled, hadError>>

\* the connection manager and the handler as constructed
StreamUnused ==
    /\ conn = [c \in Clients |-> "new"]
    /\ clients = {}
    /\ client = [c \in Clients |-> NewClient]
    /\ mgrLock = NoClient
    /\ requestClients = <<>>
    /\ activeStreams = <<>>
    /\ cancelled = {}
    /\ stask = [i \in StreamTasks |-> NoStream]
    /\ frames = [c \in Clients |-> [r \in RequestIds |-> <<>>]]
    /\ hadError = {}

(***************************************************************************)
(* ConnectionManager: subscriptions, and the disconnect that a failed send *)
(* or a failed heartbeat ping makes.  A sender is cut at the await of the  *)
(* transport's send, at the manager's lock and, holding the lock, at the   *)
(* await of the transport's close.                                         *)
(***************************************************************************)
NumCallers == 2

\* the coroutines that send to a client: stream tasks, the message loop, the
\* heartbeat loop
Callers == 1..NumCallers
\* the connections that the senders send to
ManagerClients == {1, 2}

NoCaller == [pc |-> "idle", target |-> NoClient]

\* ConnectionManager.subscribe_to_request
Subscribe(c, r) ==
    /\ IF c \in clients
       THEN /\ requestClients' = With(requestClients, r, Subscribers(r) \cup {c})
            /\ client' = [client EXCEPT ![c] = [state |-> "streaming", current |-> r]]
       ELSE UNCHANGED <<requestClients, client>>
    /\ UNCHANGED <<quotaVars, routerVars, apiVars, otherVars>>
    /\ UNCHANGED <<conn, clients, mgrLock, activeStreams, cancelled, stask,
                   frames, hadError>>

\* ConnectionManager.unsubscribe_from_request
Unsubscribe(c, r) ==
    /\ client' = IF c \in clients
                 THEN [client EXCEPT ![c] = [state |-> "connected", current |-> NoRequest]]
                 ELSE client
    /\ requestClients' = Unsubscribed(c, r)
    /\ UNCHANGED <<quotaVars, routerVars, apiVars, otherVars>>
    /\ UNCHANGED <<conn, clients, mgrLock, activeStreams, cancelled, stask,
                   frames, hadError>>

\* what a sender's step leaves alone
SenderFrame ==
    /\ UNCHANGED <<quotaVars, routerVars, apiVars, laterVars>>
    /\ UNCHANGED <<conn, activeStreams, cancelled, stask, frames, hadError>>

\* ConnectionManager.send_to_client up to the await of websocket.send_json
SendBegin(k, c) ==
    /\ caller[k].pc = "idle"
    /\ Delivered(c)
    /\ caller' = [caller EXCEPT ![k] = [pc |-> "sending", target |-> c]]
    /\ SenderFrame
    /\ UNCHANGED <<clients, client, mgrLock, requestClients, closes, callbacks>>

\* ConnectionManager._heartbeat_loop up to the await of the ping to client c
PingBegin(k, c) ==
    /\ caller[k].pc = "idle"
    /\ c \in clients
    /\ caller' = [caller EXCEPT ![k] = [pc |-> "sending", target |-> c]]
    /\ SenderFrame
    /\ UNCHANGED <<clients, client, mgrLock, requestClients, closes, callbacks>>

\* the transport's send returns
SendOk(k) ==
    /\ caller[k].pc = "sending"
    /\ caller' = [caller EXCEPT ![k].pc = "sent"]
    /\ SenderFrame
    /\ UNCHANGED <<clients, client, mgrLock, requestClients, closes, callbacks>>

\* the transport's send raises: the sender calls ConnectionManager.disconnect
SendFail(k) ==
    /\ caller[k].pc = "sending"
    /\ caller' = [caller EXCEPT ![k].pc = "waiting"]
    /\ SenderFrame
    /\ UNCHANGED <<clients, client, mgrLock, requestClients, closes, callbacks>>

\* ConnectionManager.disconnect from the lock to the await of the transport's
\* close in _close_client; with nothing to pop the lock is released at once
DisconnectAcquire(k) ==
    LET c == caller[k].target IN
    /\ caller[k].pc = "waiting"
    /\ mgrLock = NoClient
    /\ IF Popped(c)
       THEN /\ clients' = clients \ {c}
            /\ client' = [client EXCEPT ![c].state = "closing"]
            /\ closes' = [closes EXCEPT ![c] = @ + 1]
            /\ mgrLock' = c
            /\ caller' = [caller EXCEPT ![k].pc = "closing"]
       ELSE /\ caller' = [caller EXCEPT ![k].pc = "done"]
            /\ UNCHANGED <<clients, client, closes, mgrLock>>
    /\ SenderFrame
    /\ UNCHANGED <<requestClients, callbacks>>

\* ConnectionManager.disconnect from the return of the transport's close to
\* the release of the lock
DisconnectFinish(k) ==
    LET c == caller[k].target IN
    /\ caller[k].pc = "closing"
    /\ client' = [client EXCEPT ![c].state = "closed"]
    /\ requestClients' = Discarded(requestClients, c)
    /\ callbacks' = [callbacks EXCEPT ![c] = @ + 1]
    /\ mgrLock' = NoClient
    /\ caller' = [caller EXCEPT ![k].pc = "done"]
    /\ SenderFrame
    /\ UNCHANGED <<clients, closes>>

(***************************************************************************)
(* ConnectionManager with on_connect and on_disconnect set: connect and    *)
(* disconnect await the callback inside "async with self._lock".           *)
(***************************************************************************)
InCallback == {"on_connect", "on_disconnect"}

\* connect: the client registered, then the await of the on_connect callback
ConnectCallback(c) ==
    /\ conn[c] = "accepting"
    /\ clients' = clients \cup {c}
    /\ client' = [client EXCEPT ![c] = [state |-> "connected", current |-> NoRequest]]
    /\ conn' = [conn EXCEPT ![c] = "on_connect"]
    /\ UNCHANGED <<quotaVars, routerVars, apiVars, otherVars>>
    /\ UNCHANGED <<mgrLock, requestClients, activeStreams, cancelled, stask,
                   frames, hadError>>

\* disconnect of a registered client: the lock taken, the client popped and
\* closed, the subscriber sets cleaned, then the await of on_disconnect
DisconnectCallback(c) ==
    /\ conn[c] = "registered"
    /\ mgrLock = NoClient
    /\ Popped(c)
    /\ cancelled' = cancelled \cup CleanupClient(c)
    /\ clients' = clients \ {c}
    /\ client' = [client EXCEPT ![c].state = "closed"]
    /\ requestClients' = Discarded(requestClients, c)
    /\ closes' = [closes EXCEPT ![c] = @ + 1]
    /\ callbacks' = [callbacks EXCEPT ![c] = @ + 1]
    /\ mgrLock' = c
    /\ conn' = [conn EXCEPT ![c] = "on_disconnect"]
    /\ UNCHANGED <<quotaVars, routerVars, apiVars, caller, laterVars>>
    /\ UNCHANGED <<activeStreams, stask, frames, hadError>>

\* the callback returns: connect or disconnect leaves the lock and returns
CallbackReturns(c) ==
    /\ conn[c] \in InCallback
    /\ mgrLock' = NoClient
    /\ conn' = [conn EXCEPT ![c] =
                   IF conn[c] = "on_connect" THEN "registered" ELSE "closed"]
    /\ UNCHANGED <<quotaVars, routerVars, apiVars, otherVars>>
    /\ UNCHANGED <<clients, client, requestClients, activeStreams, cancelled,
                   stask, frames, hadError>>

\* the callback calls connect or disconnect on the manager, or a send that
\* fails and disconnects: it comes to "async with self._lock" and waits for
\* the lock, which the coroutine awaiting this callback holds
CallbackReenters(c) ==
    /\ conn[c] \in InCallback
    /\ conn' = [conn EXCEPT ![c] = "awaits_lock"]
    /\ UNCHANGED <<quotaVars, routerVars, apiVars, otherVars>>
    /\ UNCHANGED <<clients, client, mgrLock, requestClients, activeStreams,
                   cancelled, stask, frames, hadError>>

\* no send has been made
CallsUnused ==
    /\ caller = [k \in Callers |-> NoCaller]
    /\ closes = [c \in Clients |-> 0]
    /\ callbacks = [c \in Clients |-> 0]

(***************************************************************************)
(* orchestrator/cache: a backend's entries with their TTL, and increment.  *)
(* get, set and delete run under the backend's lock (InMemoryCache) or are *)
(* one server command (RedisCache).  RedisCache.increment is cut at its    *)
(* two RPCs, the GET and the SET.                                          *)
(***************************************************************************)
MaxValue == 2
MaxIncrements == 2

CacheKeys == {"k1", "k2"}
\* the TTLs that entries are stored with
Ttls == {0, TickSeconds}
Values == 1..MaxValue

NoKey == "none"
NoCacheEntry == [has |-> FALSE, value |-> 0, created |-> 0, ttl |-> 0]
NoGot == [key |-> NoKey, hit |-> FALSE, value |-> 0, before |-> NoCacheEntry, at |-> 0]
\* RedisCache.default_ttl_seconds
DefaultTtl == 3600

IdleIncr == [pc |-> "idle", key |-> NoKey, cur |-> 0, calls |-> 0]

\* an expiry test that still accepts an entry one tick after its TTL
IsExpiredLate(en, t) == t > en.created + en.ttl + TickSeconds

\* CacheEntry.is_expired at time t
IsExpired(en, t) == t > en.created + en.ttl

\* what cache steps leave alone
CacheFrame ==
    UNCHANGED <<quotaVars, routerVars, streamVars, apiVars, callVars, budgetVars,
                newerVars>>

\* InMemoryCache.set with an explicit TTL
CacheSet(k, v, ttl) ==
    /\ kvStore' = [kvStore EXCEPT ![k] =
                      [has |-> TRUE, value |-> v, created |-> now, ttl |-> ttl]]
    /\ kvGot' = NoGot
    /\ CacheFrame
    /\ UNCHANGED <<incr, incrRet>>

\* InMemoryCache.get: an expired entry is removed and reported absent
CacheGetKey(k) ==
    LET en == kvStore[k]
        live == en.has /\ ~IsExpired(en, now)
    IN  /\ kvGot' = [key |-> k, hit |-> live, value |-> IF live THEN en.value ELSE 0,
                     before |-> en, at |-> now]
        /\ kvStore' = IF en.has /\ ~live THEN [kvStore EXCEPT ![k] = NoCacheEntry]
                      ELSE kvStore
        /\ CacheFrame
        /\ UNCHANGED <<incr, incrRet>>

\* InMemoryCache.delete
CacheDelete(k) ==
    /\ kvStore[k].has
    /\ kvStore' = [kvStore EXCEPT ![k] = NoCacheEntry]
    /\ kvGot' = NoGot
    /\ CacheFrame
    /\ UNCHANGED <<incr, incrRet>>

\* RedisCache.increment(k, 1) up to the return of the GET
IncrementRead(t, k) ==
    /\ incr[t].pc = "idle"
    /\ incr[t].calls < MaxIncrements
    /\ incr' = [incr EXCEPT ![t] =
                   [pc |-> "read", key |-> k, calls |-> incr[t].calls + 1,
                    cur |-> IF kvStore[k].has THEN kvStore[k].value ELSE 0]]
    /\ CacheFrame
    /\ UNCHANGED <<kvStore, kvGot, incrRet>>

\* RedisCache.increment from the return of the GET to the SET and the return
IncrementWrite(t) ==
    LET k == incr[t].key
        new == incr[t].cur + 1
    IN  /\ incr[t].pc = "read"
        /\ kvStore' = [kvStore EXCEPT ![k] =
                          [has |-> TRUE, value |-> new, created |-> now,
                           ttl |-> DefaultTtl]]
        /\ incrRet' = [incrRet EXCEPT ![k] = Append(@, new)]
        /\ incr' = [incr EXCEPT ![t].pc = "idle", ![t].key = NoKey, ![t].cur = 0]
        /\ kvGot' = NoGot
        /\ CacheFrame

\* the backend as constructed: no entry
CacheUnused ==
    /\ kvStore = [k \in CacheKeys |-> NoCacheEntry]
    /\ kvGot = NoGot
    /\ incr = [t \in Tasks |-> IdleIncr]
    /\ incrRet = [k \in CacheKeys |-> <<>>]

(***************************************************************************)
(* orchestrator/analytics: the budget manager.  Money is counted in units  *)
(* of a third of 0.0001 USD, so that a sum of costs can lie on either side *)
(* of the four decimals the storage and the summary round to.              *)
(***************************************************************************)
MaxBudget == 3
MaxCost == 2

\* the units in 0.0001 USD, the step of round(x, 4)
Quantum == 3

BudgetPeriods == {"daily", "weekly", "monthly"}
\* the periods whose window lies within the window of p
Within(p) ==
    CASE p = "daily" -> {"daily"}
      [] p = "weekly" -> {"daily", "weekly"}
      [] p = "monthly" -> BudgetPeriods

MaxSpend == MaxBudget + 1
NoVerdict == [called |-> FALSE, cost |-> 0, allowed |-> TRUE]

\* round(x, 4): the nearest multiple of the quantum
Round4(x) == ((2 * x + Quantum) \div (2 * Quantum)) * Quantum

\* BudgetManager._get_period_spend: the storage's summary of the window,
\* whose estimated_cost is the sum rounded to four decimals
PeriodSpend(p) == Round4(spent[p])

\* get_spend_summary: the periods whose limit is reached
Exceeded == {p \in BudgetPeriods :
                budget.limit[p] > 0 /\ PeriodSpend(p) >= budget.limit[p]}

\* SpendSummary.<period>_spend
SummarySpend(p) == Round4(PeriodSpend(p))

\* a test that refuses a request that reaches the limit exactly
WouldExceedAt(p, cost) ==
    budget.limit[p] > 0 /\ SummarySpend(p) + cost >= budget.limit[p]

\* check_budget_allowed: the request would exceed the limit of p
WouldExceed(p, cost) ==
    budget.limit[p] > 0 /\ SummarySpend(p) + cost > budget.limit[p]

\* the first element of the tuple check_budget_allowed returns
BudgetAllowed(cost) ==
    IF ~budget.hard_limit THEN TRUE
    ELSE IF Exceeded # {} THEN FALSE
    ELSE ~\E p \in BudgetPeriods : WouldExceed(p, cost)

\* what budget steps leave alone
BudgetFrame ==
    UNCHANGED <<quotaVars, routerVars, streamVars, apiVars, callVars, kvVars,
                newerVars>>

\* update_config(<p>_limit = l)
UpdateLimit(p, l) ==
    /\ budget' = [budget EXCEPT !.limit[p] = IF l > 0 THEN l ELSE 0]
    /\ verdict' = NoVerdict
    /\ BudgetFrame
    /\ UNCHANGED spent

\* update_config(hard_limit = h)
UpdateHardLimit(h) ==
    /\ budget' = [budget EXCEPT !.hard_limit = h]
    /\ verdict' = NoVerdict
    /\ BudgetFrame
    /\ UNCHANGED spent

\* AnalyticsStorage.insert_events of events that cost c: they are in every window
InsertEvents(c) ==
    /\ spent["monthly"] + c <= MaxSpend
    /\ spent' = [p \in BudgetPeriods |-> spent[p] + c]
    /\ verdict' = NoVerdict
    /\ BudgetFrame
    /\ UNCHANGED budget

\* the window of p passes with no event: the events recorded so far are
\* older than the cutoff of p and of every shorter period
WindowPasses(p) ==
    /\ spent[p] > 0
    /\ spent' = [q \in BudgetPeriods |-> IF q \in Within(p) THEN 0 ELSE spent[q]]
    /\ verdict' = NoVerdict
    /\ BudgetFrame
    /\ UNCHANGED budget

\* check_budget_allowed(cost)
CheckBudgetAllowed(cost) ==
    /\ verdict' = [called |-> TRUE, cost |-> cost, allowed |-> BudgetAllowed(cost)]
    /\ BudgetFrame
    /\ UNCHANGED <<budget, spent>>

\* the manager after initialize, with a configuration that disables every
\* limit, and a storage with no event
BudgetUnused ==
    /\ budget = [limit |-> [p \in BudgetPeriods |-> 0], hard_limit |-> FALSE]
    /\ spent = [p \in BudgetPeriods |-> 0]
    /\ verdict = NoVerdict

(***************************************************************************)
(* orchestrator/analytics: the collector.  Its methods are synchronous and *)
(* take no lock; the threads that call them interleave where flush waits   *)
(* for the database, between handing the buffer to insert_events and       *)
(* clearing it.                                                            *)
(***************************************************************************)
MaxEvents == 5
\* AnalyticsCollector.buffer_size
BufferSize == 2

Events == 1..MaxEvents
NoWorker == [pc |-> "idle", op |-> "none", before |-> 0]
NoRead == [called |-> FALSE, seen |-> {}, before |-> 0]

\* the events that have a row in the event table
Stored == {ev \in Events : written[ev] > 0}

\* the elements of a sequence
Range(seq) == {seq[i] : i \in DOMAIN seq}

\* what collector steps leave alone
CollFrame == UNCHANGED <<earlierVars, httpVars, offlineVars, adminVars, lastVars>>

\* AnalyticsCollector.initialize
Initialize ==
    /\ ~down
    /\ ~storage
    /\ storage' = TRUE
    /\ CollFrame
    /\ UNCHANGED <<buffer, written, recorded, worker, lastRead, down>>

\* record_routing by thread t: the event is appended, and flush is entered
\* when the buffer is full
RecordRouting(t) ==
    /\ ~down
    /\ worker[t].pc = "idle"
    /\ recorded < MaxEvents
    /\ recorded' = recorded + 1
    /\ buffer' = Append(buffer, recorded + 1)
    /\ worker' = [worker EXCEPT ![t] =
                     IF Len(buffer) + 1 >= BufferSize
                     THEN [pc |-> "flush", op |-> "record", before |-> 0]
                     ELSE NoWorker]
    /\ CollFrame
    /\ UNCHANGED <<storage, written, lastRead, down>>

\* get_summary, get_usage_timeseries or get_model_breakdown by thread t, up
\* to its call of flush
ReadBegin(t) ==
    /\ ~down
    /\ worker[t].pc = "idle"
    /\ worker' = [worker EXCEPT ![t] =
                     [pc |-> "flush", op |-> "read", before |-> recorded]]
    /\ CollFrame
    /\ UNCHANGED <<storage, buffer, written, recorded, lastRead, down>>

\* the position of thread t after its flush
AfterFlush(t) ==
    IF worker[t].op = "read" THEN [worker[t] EXCEPT !.pc = "query"] ELSE NoWorker

\* flush with an empty buffer returns at once
FlushEmpty(t) ==
    /\ worker[t].pc = "flush"
    /\ buffer = <<>>
    /\ worker' = [worker EXCEPT ![t] = AfterFlush(t)]
    /\ CollFrame
    /\ UNCHANGED <<storage, buffer, written, recorded, lastRead, down>>

\* flush, from the test of the buffer to the return of insert_events, which
\* commits one row for each event of the buffer
FlushInsert(t) ==
    /\ worker[t].pc = "flush"
    /\ buffer # <<>>
    /\ written' = [ev \in Events |->
                      IF storage /\ ev \in Range(buffer)
                      THEN written[ev] + 1 ELSE written[ev]]
    /\ worker' = [worker EXCEPT ![t].pc = "clear"]
    /\ CollFrame
    /\ UNCHANGED <<storage, buffer, recorded, lastRead, down>>

\* flush when insert_events raises: the error is logged
FlushInsertFails(t) ==
    /\ worker[t].pc = "flush"
    /\ buffer # <<>>
    /\ storage
    /\ worker' = [worker EXCEPT ![t].pc = "clear"]
    /\ CollFrame
    /\ UNCHANGED <<storage, buffer, written, recorded, lastRead, down>>

\* flush: self.buffer.clear()
FlushClear(t) ==
    /\ worker[t].pc = "clear"
    /\ buffer' = <<>>
    /\ worker' = [worker EXCEPT ![t] = AfterFlush(t)]
    /\ CollFrame
    /\ UNCHANGED <<storage, written, recorded, lastRead, down>>

\* the query of the read path: the storage's answer, or the empty answer
\* when there is no storage
Query(t) ==
    /\ worker[t].pc = "query"
    /\ lastRead' = [called |-> TRUE, before |-> worker[t].before,
                    seen |-> IF storage THEN Stored ELSE {}]
    /\ worker' = [worker EXCEPT ![t] = NoWorker]
    /\ CollFrame
    /\ UNCHANGED <<storage, buffer, written, recorded, down>>

\* lifespan, after the yield: the connection manager is stopped; the
\* collector is not touched, and its memory goes with the process
Shutdown ==
    /\ ~down
    /\ \A t \in Tasks : worker[t].pc = "idle"
    /\ clients = {}
    /\ down' = TRUE
    /\ CollFrame
    /\ UNCHANGED <<storage, buffer, written, recorded, worker, lastRead>>

\* the collector after initialize
CollectorReady ==
    /\ storage = TRUE
    /\ buffer = <<>>
    /\ written = [ev \in Events |-> 0]
    /\ recorded = 0
    /\ worker = [t \in Tasks |-> NoWorker]
    /\ lastRead = NoRead
    /\ down = FALSE

\* the collector as constructed
CollectorUnused ==
    /\ storage = FALSE
    /\ buffer = <<>>
    /\ written = [ev \in Events |-> 0]
    /\ recorded = 0
    /\ worker = [t \in Tasks |-> NoWorker]
    /\ lastRead = NoRead
    /\ down = FALSE

(***************************************************************************)
(* orchestrator/http: HttpClient.request, one step for each pass of its    *)
(* retry loop up to the sleep, the return or the raise.                    *)
(***************************************************************************)
\* HttpClient.__init__: max_retries, backoff_factor
MaxRetries == 3
BackoffFactor == 1
\* _handle_rate_limit: the wait when no Retry-After header can be read
DefaultRetryAfter == 60

\* the status codes a response comes with
Statuses == {200, 404, 429, 500, 503}
\* what an attempt ends in besides a response
Failures == {"timeout", "connect", "other"}
NoHeader == -1
\* the Retry-After header of a 429 response, in seconds if there is one
RetryAfters == {NoHeader, 0, 7}
NoSleep == -1

\* the outcomes of client.request: a response or an exception
Outcomes ==
    [kind : {"response"}, status : Statuses \ {429}, header : {NoHeader}]
    \cup [kind : {"response"}, status : {429}, header : RetryAfters]
    \cup [kind : Failures, status : {0}, header : {NoHeader}]

HttpIdle == [pc |-> "idle", attempt |-> 0, log |-> <<>>]

\* a retry condition that allows one attempt more
MayRetryOnceMore(attempt) == attempt <= MaxRetries

\* the test guarding every retry: attempt < self._max_retries
MayRetry(attempt) == attempt < MaxRetries

\* HttpClient._calculate_backoff
CalculateBackoff(attempt) == BackoffFactor * 2^attempt

\* HttpClient._handle_rate_limit
HandleRateLimit(header) == IF header = NoHeader THEN DefaultRetryAfter ELSE header

\* the outcome is one the loop retries after
Retried(o) ==
    \/ o.kind = "response" /\ (o.status = 429 \/ o.status >= 500)
    \/ o.kind \in {"timeout", "connect"}

\* the sleep before the retry that follows outcome o of the given attempt
SleepAfter(o, attempt) ==
    IF o.kind = "response" /\ o.status = 429 THEN HandleRateLimit(o.header)
    ELSE CalculateBackoff(attempt)

\* what http steps leave alone
HttpFrame == UNCHANGED <<earlierVars, collVars, offlineVars, adminVars, lastVars>>

\* request is called
Request ==
    /\ http.pc = "idle"
    /\ http' = [http EXCEPT !.pc = "attempting"]
    /\ HttpFrame

\* one pass of the loop: client.request ends in o; the pass ends in a sleep
\* before the next pass, in the return of the response, or in a raise
Attempt(o) ==
    /\ http.pc = "attempting"
    /\ LET sleeps == Retried(o) /\ MayRetry(http.attempt)
           wait == IF sleeps THEN SleepAfter(o, http.attempt) ELSE NoSleep
       IN  http' = [http EXCEPT
                       !.log = Append(@, [outcome |-> o, wait |-> wait]),
                       !.pc = IF sleeps THEN "sleeping"
                              ELSE IF o.kind = "response" /\ ~Retried(o)
                                   THEN "returned"
                                   ELSE "raised"]
    /\ HttpFrame

\* asyncio.sleep returns and the loop continues with the next attempt
Wake ==
    /\ http.pc = "sleeping"
    /\ http' = [http EXCEPT !.pc = "attempting", !.attempt = @ + 1]
    /\ HttpFrame

\* the client with no request made
HttpUnused == http = HttpIdle

(***************************************************************************)
(* orchestrator/resilience: the offline cache of one source.  Time is in   *)
(* hours; the cache file is written by every store.                        *)
(***************************************************************************)
MaxHours == 36
\* the clock advances by half the default maximum age
HourStep == 12
\* OfflineCache.__init__: default_max_age_hours
DefaultMaxAge == 24

\* retrieve is called without max_age_hours
NoMaxAge == -1
\* the max_age_hours retrieve is called with
MaxAges == {NoMaxAge, 0, HourStep}

NoCached == [has |-> FALSE, data |-> 0, at |-> 0]
NoRetrieved ==
    [kind |-> "none", maxAge |-> NoMaxAge, hit |-> FALSE, data |-> 0, age |-> 0]

\* a staleness test that takes the age limit as given
EffectiveMaxAgeAsGiven(m) == IF m = NoMaxAge THEN DefaultMaxAge ELSE m

\* retrieve: max_age_hours or self._default_max_age
EffectiveMaxAge(m) == IF m = NoMaxAge \/ m = 0 THEN DefaultMaxAge ELSE m

\* CachedResponse.is_stale at the present time
IsStale(en, maxAge) == hours - en.at > maxAge

\* what offline-cache steps leave alone
OfflineFrame == UNCHANGED <<earlierVars, collVars, httpVars, adminVars, lastVars>>

HourPasses ==
    /\ hours + HourStep <= MaxHours
    /\ hours' = hours + HourStep
    /\ OfflineFrame
    /\ UNCHANGED <<memoryCache, cacheFile, lastStore, retrieved>>

\* OfflineCache.store
Store(d) ==
    LET cached == [has |-> TRUE, data |-> d, at |-> hours]
    IN  /\ memoryCache' = cached
        /\ cacheFile' = cached
        /\ lastStore' = cached
        /\ retrieved' = NoRetrieved
        /\ OfflineFrame
        /\ UNCHANGED hours

\* the answer of a retrieval that returns en
Found(kind, m, en) ==
    [kind |-> kind, maxAge |-> m, hit |-> TRUE, data |-> en.data,
     age |-> hours - en.at]

\* OfflineCache.retrieve(source, max_age_hours = m)
Retrieve(m) ==
    LET maxAge == EffectiveMaxAge(m)
        fromMemory == memoryCache.has /\ ~IsStale(memoryCache, maxAge)
        fromFile == ~fromMemory /\ cacheFile.has /\ ~IsStale(cacheFile, maxAge)
    IN  /\ retrieved' =
               IF fromMemory THEN Found("retrieve", m, memoryCache)
               ELSE IF fromFile THEN Found("retrieve", m, cacheFile)
               ELSE [NoRetrieved EXCEPT !.kind = "retrieve", !.maxAge = m]
        /\ memoryCache' = IF fromFile THEN cacheFile ELSE memoryCache
        /\ OfflineFrame
        /\ UNCHANGED <<hours, cacheFile, lastStore>>

\* OfflineCache.retrieve_stale
RetrieveStale ==
    /\ retrieved' =
           IF memoryCache.has THEN Found("stale", NoMaxAge, memoryCache)
           ELSE IF cacheFile.has THEN Found("stale", NoMaxAge, cacheFile)
           ELSE [NoRetrieved EXCEPT !.kind = "stale"]
    /\ OfflineFrame
    /\ UNCHANGED <<hours, memoryCache, cacheFile, lastStore>>

\* OfflineCache.clear(source)
ClearSource ==
    /\ memoryCache.has \/ cacheFile.has
    /\ memoryCache' = NoCached
    /\ cacheFile' = NoCached
    /\ lastStore' = NoCached
    /\ retrieved' = NoRetrieved
    /\ OfflineFrame
    /\ UNCHANGED hours

\* a new OfflineCache over the same directory: the memory cache is empty
Reopen ==
    /\ memoryCache.has
    /\ memoryCache' = NoCached
    /\ retrieved' = NoRetrieved
    /\ OfflineFrame
    /\ UNCHANGED <<hours, cacheFile, lastStore>>

\* the offline cache as constructed over an empty directory
OfflineUnused ==
    /\ hours = 0
    /\ memoryCache = NoCached
    /\ cacheFile = NoCached
    /\ lastStore = NoCached
    /\ retrieved = NoRetrieved

(***************************************************************************)
(* orchestrator/api: the chat-completion handlers                          *)
(***************************************************************************)
Auto == 0

NoCall == [key |-> "none", model |-> Auto, exhausted |-> FALSE]

\* some enabled window of identity k admits no further request
QuotaExhausted(k) ==
    \E l \in Limiters : config[l] > 0 /\ ~SwCheck(l, k).allowed

\* Router.route of a Router made for the request: its circuit breakers are
\* new, every model of get_models() is available
FreshRoute == RankModels(Models, FallbackCount + 1)

\* create_chat_completion, sse_chat_stream and chat_completion_handler for a
\* request of identity k that names a model or asks for "auto"
CreateChatCompletion(k, requested) ==
    /\ apiLast' = [key |-> k,
                   model |-> IF requested = Auto THEN Head(FreshRoute) ELSE requested,
                   exhausted |-> QuotaExhausted(k)]
    /\ UNCHANGED <<quotaVars, routerVars, streamVars, otherVars>>

ApiUnused == apiLast = NoCall

(***************************************************************************)
(* orchestrator/routing/scorer.py: score_models on a list of candidates.   *)
(* A candidate is [id, score]: the model id of its metrics and the         *)
(* composite score that score_model computes from them.  Candidates        *)
(* without metrics all get the default scores, so equal composites occur.  *)
(***************************************************************************)
NumCandidates == 3
MaxComposite == 2

CandidateIds == 1..NumCandidates
Composites == 0..MaxComposite

\* the lists of candidates with distinct ids
CandidateLists ==
    {ms \in UNION {[1..n -> [id : CandidateIds, score : Composites]] :
                       n \in 0..NumCandidates} :
        \A i, j \in DOMAIN ms : i # j => ms[i].id # ms[j].id}

NoScored == [called |-> FALSE, models |-> <<>>, ranked |-> <<>>]

\* what the calls of this and the following sections leave alone
LastFrame == UNCHANGED <<earlierVars, collVars, httpVars, offlineVars, adminVars>>

\* the sequence without its i-th element
RemoveAt(seq, i) == SubSeq(seq, 1, i - 1) \o SubSeq(seq, i + 1, Len(seq))

\* ModelScore.__lt__: the composite scores alone are compared
ScoreLess(a, b) == a.score < b.score

\* list.sort(reverse=True): descending by __lt__, and stable, so that elements
\* that compare equal stay in the order of the list
RECURSIVE SortReverse(_)
SortReverse(ms) ==
    IF ms = <<>> THEN <<>>
    ELSE LET i == CHOOSE i \in DOMAIN ms :
                      /\ \A j \in DOMAIN ms : ~ScoreLess(ms[i], ms[j])
                      /\ \A j \in 1..(i - 1) : ScoreLess(ms[j], ms[i])
         IN  <<ms[i]>> \o SortReverse(RemoveAt(ms, i))

\* ModelScorer.score_models(models, profile)
ScoreModels(ms) ==
    /\ scored' = [called |-> TRUE, models |-> ms, ranked |-> SortReverse(ms)]
    /\ LastFrame
    /\ UNCHANGED <<resolved, bounded, fill, beat>>

ScorerUnused == scored = NoScored

(***************************************************************************)
(* orchestrator/resolution: EntityResolver.resolve.  A name is a string of *)
(* one or two letters; the catalog is the canonical_models dict as the     *)
(* sequence of its items in iteration order.                               *)
(***************************************************************************)
NumCanonical == 2

ModelNames == {<<"a">>, <<"A">>, <<"b">>, <<"a", "b">>, <<"A", "b">>}
CanonicalIds == 1..NumCanonical

\* canonical_id = None
NoCanonical == 0

Catalogs ==
    {c \in UNION {[1..n -> [id : CanonicalIds, name : ModelNames]] :
                      n \in 0..NumCanonical} :
        \A i, j \in DOMAIN c : i # j => c[i].id # c[j].id}

NoResolved == [called |-> FALSE, source |-> <<>>, catalog |-> <<>>,
               id |-> NoCanonical]

\* str.lower on one letter
Lower(ch) == IF ch = "A" THEN "a" ELSE ch

\* NameNormalizer.normalize: on these names, the lower-casing
Normalize(name) == [i \in DOMAIN name |-> Lower(name[i])]

Least(a, b) == IF a < b THEN a ELSE b

\* SimilarityMatcher.levenshtein_distance
RECURSIVE LevenshteinDistance(_, _)
LevenshteinDistance(s1, s2) ==
    IF s1 = <<>> THEN Len(s2)
    ELSE IF s2 = <<>> THEN Len(s1)
    ELSE Least(Least(LevenshteinDistance(Tail(s1), s2) + 1,
                     LevenshteinDistance(s1, Tail(s2)) + 1),
               LevenshteinDistance(Tail(s1), Tail(s2))
                   + (IF Head(s1) = Head(s2) THEN 0 ELSE 1))

\* SimilarityMatcher.match: the score is 1 - distance / maxLen
Match(query, candidate) ==
    [distance |-> LevenshteinDistance(query, candidate),
     maxLen |-> IF Len(query) > Len(candidate) THEN Len(query) ELSE Len(candidate)]

\* result.score > best_match.score
ScoreGreater(a, b) == a.distance * b.maxLen < b.distance * a.maxLen

\* the catalog positions whose normalized name equals the normalized source
ExactMatches(source, catalog) ==
    {i \in DOMAIN catalog : Normalize(catalog[i].name) = Normalize(source)}

\* the fuzzy loop: a later item replaces the best only with a greater score
BestFuzzy(source, catalog) ==
    LET m(i) == Match(Normalize(source), Normalize(catalog[i].name))
    IN  CHOOSE i \in DOMAIN catalog :
            /\ \A j \in DOMAIN catalog : ~ScoreGreater(m(j), m(i))
            /\ \A j \in 1..(i - 1) : ScoreGreater(m(i), m(j))

\* the canonical_id of resolve(source, catalog)
ResolveId(source, catalog) ==
    IF catalog = <<>> THEN NoCanonical
    ELSE LET exact == ExactMatches(source, catalog)
         IN  IF exact # {}
             THEN catalog[CHOOSE i \in exact : \A j \in exact : i <= j].id
             ELSE catalog[BestFuzzy(source, catalog)].id

\* EntityResolver.resolve(source, catalog)
Resolve(source, catalog) ==
    /\ resolved' = [called |-> TRUE, source |-> source, catalog |-> catalog,
                    id |-> ResolveId(source, catalog)]
    /\ LastFrame
    /\ UNCHANGED <<scored, bounded, fill, beat>>

ResolverUnused == resolved = NoResolved

(***************************************************************************)
(* orchestrator/cache/memory.py: InMemoryCache with max_size.  set and     *)
(* set_many run under the cache's lock, one step each.  An item of the     *)
(* store is [key, created]; values and TTLs play no part in eviction.      *)
(***************************************************************************)
MaxSize == 2

EvictKeys == {"k1", "k2", "k3"}

\* the items of a set_many call, as the keys in the order of the dict
KeyLists ==
    {ks \in [1..2 -> EvictKeys] \cup [1..3 -> EvictKeys] :
        \A i, j \in DOMAIN ks : i # j => ks[i] # ks[j]}

\* InMemoryCache(): max_size None
NoBounded == [max |-> 0, store |-> <<>>, evicted |-> <<>>]

\* an eviction that removes the entry created last
NewestIndex(store) ==
    CHOOSE i \in DOMAIN store :
        /\ \A j \in DOMAIN store : store[i].created >= store[j].created
        /\ \A j \in 1..(i - 1) : store[j].created < store[i].created

\* min(self._store.keys(), key=created_at): the first of the oldest entries
OldestIndex(store) ==
    CHOOSE i \in DOMAIN store :
        /\ \A j \in DOMAIN store : store[i].created <= store[j].created
        /\ \A j \in 1..(i - 1) : store[j].created > store[i].created

\* "if self._max_size and len(self._store) >= self._max_size"
AtMaxSize(c) == c.max # 0 /\ Len(c.store) >= c.max

\* _evict_oldest, with the entry removed and the creation times it was
\* chosen among added to the history
EvictOldest(c) ==
    IF c.store = <<>> THEN c
    ELSE LET i == OldestIndex(c.store)
         IN  [c EXCEPT !.store = RemoveAt(c.store, i),
                       !.evicted = Append(c.evicted,
                           [key |-> c.store[i].key, created |-> c.store[i].created,
                            among |-> {c.store[j].created : j \in DOMAIN c.store}])]

\* self._store[key] = CacheEntry(created_at=utcnow()): a key already in the
\* dict keeps its place
StoreEntry(store, k, t) ==
    IF \E i \in DOMAIN store : store[i].key = k
    THEN [i \in DOMAIN store |->
             IF store[i].key = k THEN [key |-> k, created |-> t] ELSE store[i]]
    ELSE Append(store, [key |-> k, created |-> t])

\* the body of set for one key, under the lock
SetOne(c, k, t) ==
    LET room == IF AtMaxSize(c) THEN EvictOldest(c) ELSE c
    IN  [room EXCEPT !.store = StoreEntry(room.store, k, t)]

\* the loop of set_many over the items
RECURSIVE SetEach(_, _, _)
SetEach(c, ks, t) ==
    IF ks = <<>> THEN c ELSE SetEach(SetOne(c, Head(ks), t), Tail(ks), t)

BoundedFrame ==
    /\ LastFrame
    /\ UNCHANGED <<scored, resolved, fill, beat>>

\* InMemoryCache(max_size=m)
NewCache(m) ==
    /\ bounded' = [max |-> m, store |-> <<>>, evicted |-> <<>>]
    /\ BoundedFrame

\* InMemoryCache.set(k, value)
BoundedSet(k) ==
    /\ bounded' = SetOne([bounded EXCEPT !.evicted = <<>>], k, now)
    /\ BoundedFrame

\* InMemoryCache.set_many(items)
BoundedSetMany(ks) ==
    /\ bounded' = SetEach([bounded EXCEPT !.evicted = <<>>], ks, now)
    /\ BoundedFrame

\* InMemoryCache.delete(k)
BoundedDelete(k) ==
    /\ \E i \in DOMAIN bounded.store : bounded.store[i].key = k
    /\ bounded' = [bounded EXCEPT
                      !.store = SelectSeq(bounded.store, LAMBDA en : en.key # k),
                      !.evicted = <<>>]
    /\ BoundedFrame

BoundedUnused == bounded = NoBounded

(***************************************************************************)
(* orchestrator/cache/base.py: CacheBackend.get_or_set on the backend of   *)
(* the cache section.  A call is cut at its awaits: the get, the factory   *)
(* and the set.  The n-th call of the factory for a key returns n.         *)
(***************************************************************************)
MaxFills == 2

IdleFill == [pc |-> "idle", key |-> NoKey, value |-> 0, started |-> 0]

NoFill == [task |-> [t \in Tasks |-> IdleFill],
           calls |-> [k \in CacheKeys |-> 0],
           returned |-> [k \in CacheKeys |-> {}]]

\* what a get_or_set step leaves alone
FillFrame ==
    /\ UNCHANGED <<quotaVars, routerVars, streamVars, apiVars, callVars, budgetVars,
                   collVars, httpVars, offlineVars, adminVars>>
    /\ UNCHANGED <<scored, resolved, bounded, beat, kvGot, incr, incrRet>>

\* the entry of key k is present and not expired
Live(k) == kvStore[k].has /\ ~IsExpired(kvStore[k], now)

\* get_or_set(k, factory) up to the return of "await self.get(key)": a live
\* value is returned, an expired entry is removed
GetOrSetGet(t, k) ==
    /\ fill.task[t].pc = "idle"
    /\ fill.task[t].started < MaxFills
    /\ IF Live(k)
       THEN /\ fill' = [fill EXCEPT
                           !.task[t].started = @ + 1,
                           !.returned[k] = @ \cup {kvStore[k].value}]
            /\ UNCHANGED kvStore
       ELSE /\ fill' = [fill EXCEPT
                           !.task[t] = [pc |-> "missed", key |-> k, value |-> 0,
                                        started |-> @.started + 1]]
            /\ kvStore' = [kvStore EXCEPT ![k] = NoCacheEntry]
    /\ FillFrame

\* the factory is called and awaited
GetOrSetFactory(t) ==
    LET k == fill.task[t].key
    IN  /\ fill.task[t].pc = "missed"
        /\ fill' = [fill EXCEPT !.calls[k] = @ + 1,
                                !.task[t].pc = "computed",
                                !.task[t].value = fill.calls[k] + 1]
        /\ UNCHANGED kvStore
        /\ FillFrame

\* "await self.set(key, value, ttl_seconds)" and the return of the value
GetOrSetSet(t) ==
    LET k == fill.task[t].key
        v == fill.task[t].value
    IN  /\ fill.task[t].pc = "computed"
        /\ kvStore' = [kvStore EXCEPT ![k] =
                          [has |-> TRUE, value |-> v, created |-> now,
                           ttl |-> DefaultTtl]]
        /\ fill' = [fill EXCEPT !.returned[k] = @ \cup {v},
                                !.task[t] = [IdleFill EXCEPT
                                                !.started = fill.task[t].started]]
        /\ FillFrame

FillUnused == fill = NoFill

(***************************************************************************)
(* orchestrator/streaming/manager.py: one pass of _heartbeat_loop.  The    *)
(* loop is cut at the await of each ping and, in disconnect, at the        *)
(* manager's lock and at the await of the transport's close.               *)
(***************************************************************************)
MaxTicks == 2

NoBeat == [pc |-> "sleeping", todo |-> {}, disconnected |-> {},
           target |-> NoClient, snapshot |-> {}, pinged |-> {}, raised |-> {},
           ticks |-> 0]

\* a loop that collects no client whose ping raised
CollectedNone(disconnected, c, ok) == disconnected

\* "except Exception: disconnected.append(client_id)"
Collected(disconnected, c, ok) ==
    IF ok THEN disconnected ELSE disconnected \cup {c}

\* the loop after its pings and after each disconnect: the next client of
\* the disconnected list, or the end of the pass
AfterDisconnect(b, left) ==
    IF left = {}
    THEN [b EXCEPT !.pc = "sleeping", !.disconnected = {}, !.target = NoClient,
                   !.ticks = @ + 1]
    ELSE [b EXCEPT !.pc = "disconnecting", !.disconnected = left,
                   !.target = NoClient]

\* what a step of the heartbeat leaves alone
BeatFrame ==
    /\ UNCHANGED <<quotaVars, routerVars, apiVars, kvVars, budgetVars, collVars,
                   httpVars, offlineVars, adminVars>>
    /\ UNCHANGED <<scored, resolved, bounded, fill>>
    /\ UNCHANGED <<conn, activeStreams, cancelled, stask, frames, hadError, caller>>

\* the sleep returns: list(self._clients.items()) is taken
BeatWake ==
    /\ beat.pc = "sleeping"
    /\ beat.ticks < MaxTicks
    /\ beat' = IF clients = {}
               THEN [NoBeat EXCEPT !.ticks = beat.ticks + 1]
               ELSE [NoBeat EXCEPT !.pc = "pinging", !.todo = clients,
                                   !.snapshot = clients, !.ticks = beat.ticks]
    /\ BeatFrame
    /\ UNCHANGED <<clients, client, mgrLock, requestClients, closes, callbacks>>

\* the ping to client c of the snapshot returns (ok) or raises
BeatPing(c, ok) ==
    /\ beat.pc = "pinging"
    /\ c \in beat.todo
    /\ LET b == [beat EXCEPT !.todo = @ \ {c},
                             !.pinged = @ \cup {c},
                             !.raised = IF ok THEN @ ELSE @ \cup {c},
                             !.disconnected = Collected(@, c, ok)]
       IN  beat' = IF b.todo = {} THEN AfterDisconnect(b, b.disconnected) ELSE b
    /\ BeatFrame
    /\ UNCHANGED <<clients, client, mgrLock, requestClients, closes, callbacks>>

\* disconnect(c) for a client of the disconnected list, from the lock to the
\* await of the transport's close; with nothing to pop it returns at once
BeatDisconnectAcquire(c) ==
    /\ beat.pc = "disconnecting"
    /\ c \in beat.disconnected
    /\ mgrLock = NoClient
    /\ IF Popped(c)
       THEN /\ clients' = clients \ {c}
            /\ client' = [client EXCEPT ![c].state = "closing"]
            /\ closes' = [closes EXCEPT ![c] = @ + 1]
            /\ mgrLock' = c
            /\ beat' = [beat EXCEPT !.pc = "closing", !.target = c]
       ELSE /\ beat' = AfterDisconnect(beat, beat.disconnected \ {c})
            /\ UNCHANGED <<clients, client, closes, mgrLock>>
    /\ BeatFrame
    /\ UNCHANGED <<requestClients, callbacks>>

\* disconnect from the return of the transport's close to the release of
\* the lock
BeatDisconnectFinish ==
    LET c == beat.target IN
    /\ beat.pc = "closing"
    /\ client' = [client EXCEPT ![c].state = "closed"]
    /\ requestClients' = Discarded(requestClients, c)
    /\ callbacks' = [callbacks EXCEPT ![c] = @ + 1]
    /\ mgrLock' = NoClient
    /\ beat' = AfterDisconnect(beat, beat.disconnected \ {c})
    /\ BeatFrame
    /\ UNCHANGED <<clients, closes>>

BeatUnused == beat = NoBeat

\* the calls of these sections not made yet
LastUnused ==
    /\ ScorerUnused
    /\ ResolverUnused
    /\ BoundedUnused
    /\ FillUnused
    /\ BeatUnused

(***************************************************************************)
(* Initial states, next-state relations and specifications.                *)
(***************************************************************************)

QuotaConfigs ==
    {c \in [Limiters -> 1..MaxCalls] :
        /\ c["minute"] <= MaxLimit
        /\ c["hour"] \in {1, MaxCalls}
        /\ c["day"] \in {1, MaxCalls}
        /\ c["hour"] = MaxCalls \/ c["day"] = MaxCalls}

InitStores ==
    /\ now = 0
    /\ cacheTs = [l \in Limiters |-> [k \in Keys |-> NoEntry]]
    /\ localTs = [l \in Limiters |-> [k \in Keys |-> <<>>]]
    /\ lockHolder = [l \in Limiters |-> NoTask]
    /\ task = [t \in Tasks |-> IdleTask]
    /\ admLog = [k \in Keys |-> <<>>]
    /\ stats = [k \in Keys |-> [started |-> 0, returned |-> 0, allowed |-> 0]]

\* the quota manager with every window disabled (limit 0), never called
QuotaUnused ==
    /\ InitStores
    /\ config = [l \in Limiters |-> 0]

\* the subsystems of the later sections as constructed
OthersUnused ==
    /\ CallsUnused
    /\ CacheUnused
    /\ BudgetUnused
    /\ CollectorUnused
    /\ HttpUnused
    /\ OfflineUnused
    /\ AdminUnused
    /\ LastUnused

InitLimiter ==
    /\ InitStores
    /\ config \in {c \in [Limiters -> 0..MaxLimit] :
                       c["minute"] > 0 /\ c["hour"] = 0 /\ c["day"] = 0}
    /\ RouterUnused
    /\ StreamUnused
    /\ ApiUnused
    /\ OthersUnused

\* a manager with the minute and hour windows enforced and the day window off
InitReset ==
    /\ InitStores
    /\ config \in {c \in [Limiters -> 0..MaxCalls] :
                       /\ c["minute"] \in 1..MaxLimit
                       /\ c["hour"] = MaxCalls
                       /\ c["day"] = 0}
    /\ RouterUnused
    /\ StreamUnused
    /\ ApiUnused
    /\ OthersUnused

\* a manager initialised with any of the windows on or off
InitUpdate ==
    /\ InitStores
    /\ config \in {c \in [Limiters -> 0..MaxCalls] :
                       /\ c["minute"] \in 0..MaxLimit
                       /\ c["hour"] \in {0, MaxCalls}
                       /\ c["day"] = 0}
    /\ RouterUnused
    /\ StreamUnused
    /\ ApiUnused
    /\ OthersUnused

InitQuota ==
    /\ InitStores
    /\ config \in QuotaConfigs
    /\ RouterUnused
    /\ StreamUnused
    /\ ApiUnused
    /\ OthersUnused

InitRouter ==
    /\ RouterUnused
    /\ StreamUnused
    /\ ApiUnused
    /\ QuotaUnused
    /\ OthersUnused

InitCollector ==
    /\ RouterUnused
    /\ StreamUnused
    /\ ApiUnused
    /\ QuotaUnused
    /\ CallsUnused
    /\ CacheUnused
    /\ BudgetUnused
    /\ CollectorReady
    /\ HttpUnused
    /\ OfflineUnused
    /\ AdminUnused
    /\ LastUnused

InitStream ==
    /\ StreamUnused
    /\ QuotaUnused
    /\ RouterUnused
    /\ ApiUnused
    /\ OthersUnused

\* the application: the quota manager initialized, the handlers idle
InitApi == InitQuota

NextLimiter ==
    \/ Tick
    \/ \E t \in Tasks, k \in Keys : LimiterCheck(t, k)
    \/ \E t \in Tasks, k \in Keys, n \in 1..MaxTokens : LimiterConsume(t, k, n)
    \/ \E t \in Tasks : ConsumeAcquire(t)
    \/ \E t \in Tasks : ConsumeWrite(t)

\* consumes of one token on the minute limiter, over more than a window
NextWindow ==
    \/ Tick
    \/ WindowElapses
    \/ \E t \in Tasks, k \in Keys : LimiterConsume(t, k, 1)
    \/ \E t \in Tasks : ConsumeAcquire(t)
    \/ \E t \in Tasks : ConsumeWrite(t)

\* a consume of one token, started while the key's admissions do not
\* outnumber the largest limit
ConsumeInOutage(t, k) ==
    /\ Len(admLog[k]) <= MaxLimit
    /\ LimiterConsume(t, k, 1)

\* consumes on the minute limiter while the cache fails and recovers
NextOutage ==
    \/ Tick
    \/ CacheFails
    \/ CacheRecovers
    \/ \E t \in Tasks, k \in Keys : ConsumeInOutage(t, k)
    \/ \E t \in Tasks : ConsumeAcquire(t)
    \/ \E t \in Tasks : ConsumeWrite(t)

\* the quota calls of one caller with update_config, the limiters using
\* their local stores
NextUpdateLocal ==
    \/ CacheFails
    \/ \E k \in Keys : ConsumeQuota(1, k)
    \/ QuotaCheck(1)
    \/ ConsumeAcquire(1)
    \/ ConsumeWrite(1)
    \/ \E l \in Limiters, n \in {0, MaxLimit} : UpdateConfig(l, n)

NextQuota ==
    \/ Tick
    \/ \E t \in Tasks, k \in Keys : ConsumeQuota(t, k)
    \/ \E t \in Tasks : QuotaCheck(t)
    \/ \E t \in Tasks : ConsumeAcquire(t)
    \/ \E t \in Tasks : ConsumeWrite(t)

NextRouter ==
    \/ RouterTick
    \/ \E c \in SUBSET Models : Route(c)
    \/ \E m \in Models : RecordFailure(m)
    \/ \E m \in Models : RecordSuccess(m)
    \/ \E m \in Models : ResetCircuitBreaker(m)

\* one circuit breaker, with every call that reads or writes it
NextBreaker ==
    \/ RouterTick
    \/ \E m \in BreakerModels : RecordFailure(m)
    \/ \E m \in BreakerModels : RecordSuccess(m)
    \/ \E m \in BreakerModels : ResetCircuitBreaker(m)
    \/ \E m \in BreakerModels : GetModelStatus(m)
    \/ \E m \in BreakerModels : Route({m})

\* routes over one candidate, with the outcomes recorded for it: a circuit is
\* found half-open only by the route that then selects its model
NextProbe ==
    \/ RouterTick
    \/ \E m \in Models : RecordFailure(m)
    \/ \E m \in Models : RecordSuccess(m)
    \/ \E m \in Models : Route({m})

\* route_with_fallback while the best-scoring model fails
NextFallback ==
    \/ RouterTick
    \/ \E m \in BreakerModels : RecordFailure(m)
    \/ \E c \in SUBSET Models, f \in SUBSET Models : RouteWithFallback(c, f)

NextConnect ==
    \/ \E c \in Clients : ConnectCheck(c)
    \/ \E c \in Clients : ConnectAccept(c)
    \/ \E c \in Clients : ConnectRegister(c)
    \/ \E c \in Clients : Disconnect(c)

NextStream ==
    \/ \E c \in StreamClients : ConnectCheck(c)
    \/ \E c \in StreamClients : ConnectAccept(c)
    \/ \E c \in StreamClients : ConnectRegister(c)
    \/ \E c \in StreamClients : Disconnect(c)
    \/ \E c \in StreamClients, r \in RequestIds : ChatRequest(c, r)
    \/ \E c \in StreamClients, r \in RequestIds : CancelRequest(c, r)
    \/ \E i \in StreamTasks : StreamChunk(i)
    \/ \E i \in StreamTasks : StreamEnd(i)
    \/ \E i \in StreamTasks : StreamRaise(i)
    \/ \E i \in StreamTasks : StreamFinally(i)

\* two connections of one handler; the cancel messages come from the second
CancelClients == {1, 2}
Canceller == 2

NextCancel ==
    \/ \E c \in CancelClients : ConnectCheck(c)
    \/ \E c \in CancelClients : ConnectAccept(c)
    \/ \E c \in CancelClients : ConnectRegister(c)
    \/ \E c \in CancelClients, r \in RequestIds : ChatRequest(c, r)
    \/ \E r \in RequestIds : CancelRequest(Canceller, r)
    \/ \E i \in StreamTasks : StreamChunk(i)
    \/ \E i \in StreamTasks : StreamEnd(i)
    \/ \E i \in StreamTasks : StreamFinally(i)

NextManager ==
    \/ \E c \in ManagerClients : ConnectCheck(c)
    \/ \E c \in ManagerClients : ConnectAccept(c)
    \/ \E c \in ManagerClients : ConnectRegister(c)
    \/ \E c \in ManagerClients : Disconnect(c)
    \/ \E c \in ManagerClients, r \in RequestIds : Subscribe(c, r)
    \/ \E c \in ManagerClients, r \in RequestIds : Unsubscribe(c, r)
    \/ \E k \in Callers, c \in ManagerClients : SendBegin(k, c)
    \/ \E k \in Callers, c \in ManagerClients : PingBegin(k, c)
    \/ \E k \in Callers : SendOk(k)
    \/ \E k \in Callers : SendFail(k)
    \/ \E k \in Callers : DisconnectAcquire(k)
    \/ \E k \in Callers : DisconnectFinish(k)

\* connections of a manager that has both callbacks set
NextCallback ==
    \/ \E c \in Clients : ConnectCheck(c)
    \/ \E c \in Clients : ConnectAccept(c)
    \/ \E c \in Clients : ConnectCallback(c)
    \/ \E c \in Clients : DisconnectCallback(c)
    \/ \E c \in Clients : CallbackReturns(c)
    \/ \E c \in Clients : CallbackReenters(c)

NextScorer ==
    \/ \E ms \in CandidateLists : ScoreModels(ms)

NextResolver ==
    \/ \E source \in ModelNames, catalog \in Catalogs : Resolve(source, catalog)

NextEvict ==
    \/ Tick
    \/ \E m \in 1..MaxSize : NewCache(m)
    \/ \E k \in EvictKeys : BoundedSet(k)
    \/ \E ks \in KeyLists : BoundedSetMany(ks)
    \/ \E k \in EvictKeys : BoundedDelete(k)

NextFill ==
    \/ Tick
    \/ \E t \in Tasks, k \in CacheKeys : GetOrSetGet(t, k)
    \/ \E t \in Tasks : GetOrSetFactory(t)
    \/ \E t \in Tasks : GetOrSetSet(t)

NextBeat ==
    \/ \E c \in ManagerClients : ConnectCheck(c)
    \/ \E c \in ManagerClients : ConnectAccept(c)
    \/ \E c \in ManagerClients : ConnectRegister(c)
    \/ \E c \in ManagerClients : Disconnect(c)
    \/ \E c \in ManagerClients, r \in RequestIds : Subscribe(c, r)
    \/ \E c \in ManagerClients, r \in RequestIds : Unsubscribe(c, r)
    \/ BeatWake
    \/ \E c \in ManagerClients, ok \in BOOLEAN : BeatPing(c, ok)
    \/ \E c \in ManagerClients : BeatDisconnectAcquire(c)
    \/ BeatDisconnectFinish

NextCache ==
    \/ Tick
    \/ \E k \in CacheKeys, v \in Values, ttl \in Ttls : CacheSet(k, v, ttl)
    \/ \E k \in CacheKeys : CacheGetKey(k)
    \/ \E k \in CacheKeys : CacheDelete(k)

NextIncrement ==
    \/ \E t \in Tasks, k \in CacheKeys : IncrementRead(t, k)
    \/ \E t \in Tasks : IncrementWrite(t)

NextBudget ==
    \/ \E p \in BudgetPeriods, l \in -1..MaxBudget : UpdateLimit(p, l)
    \/ \E h \in BOOLEAN : UpdateHardLimit(h)
    \/ \E c \in 1..MaxCost : InsertEvents(c)
    \/ \E p \in BudgetPeriods : WindowPasses(p)
    \/ \E c \in 0..MaxCost : CheckBudgetAllowed(c)

NextCollector ==
    \/ Initialize
    \/ \E t \in Tasks : RecordRouting(t)
    \/ \E t \in Tasks : ReadBegin(t)
    \/ \E t \in Tasks : FlushEmpty(t)
    \/ \E t \in Tasks : FlushInsert(t)
    \/ \E t \in Tasks : FlushInsertFails(t)
    \/ \E t \in Tasks : FlushClear(t)
    \/ \E t \in Tasks : Query(t)
    \/ Shutdown

\* one thread, and a storage that does not fail
NextCollectorAlone ==
    \/ RecordRouting(1)
    \/ ReadBegin(1)
    \/ FlushEmpty(1)
    \/ FlushInsert(1)
    \/ FlushClear(1)
    \/ Query(1)
    \/ Shutdown

NextHttp ==
    \/ Request
    \/ \E o \in Outcomes : Attempt(o)
    \/ Wake

NextOffline ==
    \/ HourPasses
    \/ \E d \in Values : Store(d)
    \/ \E m \in MaxAges : Retrieve(m)
    \/ RetrieveStale
    \/ ClearSource
    \/ Reopen

\* the quota calls of one caller, with reset_quota and check_quota
NextReset ==
    \/ Tick
    \/ \E k \in Keys : ConsumeQuota(1, k)
    \/ QuotaCheck(1)
    \/ ConsumeAcquire(1)
    \/ ConsumeWrite(1)
    \/ \E k \in Keys : ResetQuota(k)
    \/ ResetLimiter
    \/ \E k \in Keys : CheckQuota(k)
    \/ CheckLimiter

\* the quota calls of one caller, with update_config between them
NextUpdate ==
    \/ Tick
    \/ \E k \in Keys : ConsumeQuota(1, k)
    \/ QuotaCheck(1)
    \/ ConsumeAcquire(1)
    \/ ConsumeWrite(1)
    \/ \E l \in Limiters, n \in {0, MaxLimit} : UpdateConfig(l, n)

NextApi ==
    \/ Tick
    \/ \E t \in Tasks, k \in Keys : ConsumeQuota(t, k)
    \/ \E t \in Tasks : QuotaCheck(t)
    \/ \E t \in Tasks : ConsumeAcquire(t)
    \/ \E t \in Tasks : ConsumeWrite(t)
    \/ \E k \in Keys, m \in Models \cup {Auto} : CreateChatCompletion(k, m)

SpecLimiter == InitLimiter /\ [][NextLimiter]_vars
SpecQuota == InitQuota /\ [][NextQuota]_vars
SpecRouter == InitRouter /\ [][NextRouter]_vars
SpecConnect == InitStream /\ [][NextConnect]_vars
SpecStream == InitStream /\ [][NextStream]_vars
SpecApi == InitApi /\ [][NextApi]_vars
SpecBreaker == InitRouter /\ [][NextBreaker]_vars
SpecFallback == InitRouter /\ [][NextFallback]_vars
SpecCache == InitRouter /\ [][NextCache]_vars
SpecIncrement == InitRouter /\ [][NextIncrement]_vars
SpecBudget == InitRouter /\ [][NextBudget]_vars
SpecHttp == InitRouter /\ [][NextHttp]_vars
SpecOffline == InitRouter /\ [][NextOffline]_vars
SpecWindow == InitLimiter /\ [][NextWindow]_vars
SpecOutage == InitLimiter /\ [][NextOutage]_vars
SpecUpdateLocal == InitUpdate /\ [][NextUpdateLocal]_vars
SpecUpdate == InitUpdate /\ [][NextUpdate]_vars
SpecReset == InitReset /\ [][NextReset]_vars
SpecCollector == InitRouter /\ [][NextCollector]_vars
SpecCollectorAlone == InitCollector /\ [][NextCollectorAlone]_vars
SpecProbe == InitRouter /\ [][NextProbe]_vars
SpecScorer == InitRouter /\ [][NextScorer]_vars
SpecResolver == InitRouter /\ [][NextResolver]_vars
SpecEvict == InitRouter /\ [][NextEvict]_vars
SpecFill == InitRouter /\ [][NextFill]_vars
SpecBeat == InitStream /\ [][NextBeat]_vars
SpecCancel == InitStream /\ [][NextCancel]_vars
SpecCallback == InitStream /\ [][NextCallback]_vars
SpecManager == InitStream /\ [][NextManager]_vars


(***************************************************************************)
(* Claims about the limiter and the quota manager.                         *)
(***************************************************************************)

\* the admissions of key k whose admission time lies in (t - W, t]
AdmittedIn(k, t) ==
    Cardinality({i \in DOMAIN admLog[k] :
                    admLog[k][i] > t - MinuteWindow /\ admLog[k][i] <= t})

\* C1: for every key of a sliding-window limiter with limit L and window W,
\* at every instant t the number of admitted requests whose admission time
\* lies in (t - W, t] is at most L, also when consume calls run concurrently.
C1_WindowBound ==
    \A k \in Keys : \A t \in 0..MaxTime : AdmittedIn(k, t) <= config["minute"]

\* a key that is at its limit again after its window slid, with one more
\* consume under way
C1_Witness ==
    \E k \in Keys :
        /\ Len(admLog[k]) > config["minute"]
        /\ AdmittedIn(k, now) = config["minute"]
        /\ \E t \in Tasks : task[t].phase = "lock"

\* C2: whenever consume_quota(k) returns allowed = false, no window's
\* recorded usage for k has increased because of that call.
C2_DeniedCallRecordsNothing ==
    \A t \in Tasks :
        (task[t].phase = "done" /\ task[t].mode = "quota" /\ ~task[t].allowed)
            => task[t].wrote = {}

\* the hour and day limits cannot bind: they admit every call of the model
NotBinding == config["hour"] >= MaxCalls /\ config["day"] >= MaxCalls

\* C3: when N consume_quota calls for one identifier run inside one minute
\* window with minute limit L, hour and day limits not binding, never more
\* than L of them return allowed = true, and once all have returned exactly
\* min(N, L) have.
C3_ExactlyMinAdmitted ==
    \A k \in Keys :
        (NotBinding /\ now < MinuteWindow) =>
            /\ stats[k].allowed <= config["minute"]
            /\ stats[k].returned = stats[k].started
                  => stats[k].allowed = Min(stats[k].started, config["minute"])

\* more calls than the limit have all returned inside one window, one of
\* them denied by the consume after it had passed the checks
C3_Witness ==
    \E k \in Keys :
        /\ NotBinding /\ now < MinuteWindow
        /\ stats[k].returned = stats[k].started
        /\ stats[k].started > config["minute"]
        /\ stats[k].allowed = config["minute"]
        /\ \E t \in Tasks : task[t].phase = "done" /\ "minute" \in task[t].denied
                              /\ task[t].wrote # {}

(***************************************************************************)
(* Claims about the router.                                                *)
(***************************************************************************)

\* the models of the last routing result
Returned == {routed.ranked[i] : i \in DOMAIN routed.ranked}

\* the breaker of x counts threshold failures in a row and recovery_timeout
\* has not elapsed since the last of them
TrippedAndCooling(x) ==
    /\ cb[x].count >= FailureThreshold
    /\ now - cb[x].last < RecoveryTimeout

\* C6 as stated: once threshold failures have been recorded for model X and
\* recovery_timeout has not yet elapsed, route never returns X as the
\* selected model or as a fallback, provided another candidate has an
\* available circuit.
C6_Original ==
    \A x \in routed.cands :
        (/\ x \in tripped
         /\ now - cb[x].last < RecoveryTimeout
         /\ \E y \in routed.cands \ {x} : IsAvailable(cb[y]))
            => x \notin Returned

\* C6 as amended: once threshold failures have been recorded for model X
\* with no success or reset recorded for X among or after them, and
\* recovery_timeout has not yet elapsed since the last of them, route never
\* returns X as the selected model or as a fallback, provided another
\* candidate has an available circuit.
C6_OpenCircuitNotRouted ==
    \A x \in routed.cands :
        (TrippedAndCooling(x) /\ \E y \in routed.cands \ {x} : IsAvailable(cb[y]))
            => x \notin Returned

\* a route over the best-scoring model, tripped and cooling, and another
\* model returned the other one
C6_Witness ==
    /\ 1 \in routed.cands
    /\ TrippedAndCooling(1)
    /\ Len(routed.ranked) > 0
    /\ routed.ranked[1] # 1

\* fewer than threshold failures since the last success or reset: closed
ClosedBelowThreshold ==
    \A m \in Models : cb[m].count < FailureThreshold => cb[m].state = "closed"

\* the step that records the threshold-th failure in a row of model m
ThresholdStep(m) ==
    cb[m].count = FailureThreshold - 1 /\ cb'[m].count = FailureThreshold

\* C13: from closed with failure count 0, a circuit stays closed while fewer
\* than threshold failures have been recorded since the last success or
\* reset, and is open immediately after the threshold-th such failure.
C13_OpensAtThreshold ==
    /\ []ClosedBelowThreshold
    /\ [][\A m \in Models :
            ThresholdStep(m) => cb[m].state = "closed" /\ cb'[m].state = "open"]_vars

\* the threshold-th failure in a row, recorded after the clock has advanced,
\* has just opened the circuit
C13_Witness ==
    \E m \in BreakerModels :
        /\ cb[m].count = FailureThreshold
        /\ cb[m].state = "open"
        /\ cb[m].last = now /\ now > 0

\* what get_model_status reports of a circuit it found open
OpenReportedByAge ==
    (status.model \in Models /\ status.before.state = "open") =>
        IF now - status.before.last < RecoveryTimeout
        THEN status.state = "open" /\ ~status.available
        ELSE status.state = "half_open" /\ status.available

\* the step that moves the circuit of model m from open to half-open
HalfOpenStep(m) == cb[m].state = "open" /\ cb'[m].state = "half_open"

\* C14: an open circuit is reported unavailable on every read made less than
\* recovery_timeout after the last recorded failure; the first read made at
\* or after recovery_timeout reports half-open, available; and a circuit goes
\* from open to half-open only in such a read.
C14_RecoveryOnRead ==
    /\ []OpenReportedByAge
    /\ [][\A m \in Models :
            HalfOpenStep(m) =>
                /\ now' = now
                /\ now - cb[m].last >= RecoveryTimeout
                /\ status'.model = m \/ m \in routed'.cands]_vars

\* a read made recovery_timeout after the last failure found the circuit open
\* and reported it half-open
C14_Witness ==
    /\ status.model \in Models
    /\ status.before.state = "open"
    /\ now - status.before.last >= RecoveryTimeout
    /\ status.state = "half_open" /\ status.available

\* C15: record_success in any state sets the failure count to 0 and the state
\* to closed, and a circuit with failure count 0 is closed: threshold new
\* failures are needed before it opens again.
C15_SuccessCloses ==
    /\ [][\A m \in Models :
            RecordSuccess(m) => cb'[m].count = 0 /\ cb'[m].state = "closed"]_vars
    /\ [](\A m \in Models : cb[m].count = 0 => cb[m].state = "closed")

\* a success recorded for a circuit that had opened: the count is 0, the
\* state closed, the time of the last failure kept
C15_Witness ==
    \E m \in BreakerModels :
        /\ m \in tripped
        /\ cb[m].count = 0 /\ cb[m].state = "closed"
        /\ cb[m].last # NoTime

\* C16: with a non-empty candidate set whose circuits are all open, route
\* ranks the full candidate list; it returns none only for the empty set.
C16_DegradedRoute ==
    /\ routed.ranked = <<>> <=> routed.cands = {}
    /\ (routed.cands # {} /\ \A m \in routed.cands : ~IsAvailable(cb[m]))
          => routed.ranked = RankModels(routed.cands, FallbackCount + 1)

\* a route over all the models, every circuit open, returned a selection
C16_Witness ==
    /\ routed.cands = Models
    /\ \A m \in Models : ~IsAvailable(cb[m])
    /\ Len(routed.ranked) = Min(NumModels, FallbackCount + 1)

\* C17: route_with_fallback returns no model of failed_ids, neither as the
\* selected model nor as a fallback.
C17_FailedExcluded ==
    failedIds.called => Returned \cap failedIds.ids = {}

\* a route_with_fallback with a failed model excluded, over candidates whose
\* circuits are all open, returned a selection
C17_Witness ==
    /\ failedIds.called
    /\ failedIds.ids # {}
    /\ routed.ranked # <<>>
    /\ \A m \in routed.cands : ~IsAvailable(cb[m])

(***************************************************************************)
(* Claims about streaming.                                                 *)
(***************************************************************************)

\* C4: for each request id R streamed to a client C, whatever chat and cancel
\* messages C sends, the frames delivered to C for R are chunks with index
\* 0, 1, 2, ... followed by one terminal event (done, error or cancelled),
\* and no frame for R is delivered after the terminal event.
C4_FramesInOrder ==
    \A c \in Clients, r \in RequestIds : WellFormed(frames[c][r])

\* C5: if a cancel for request R is accepted while R's stream has not sent
\* its terminal event, the terminal event of that stream is cancelled, never
\* done (nor error).
C5_CancelEndsCancelled ==
    \A i \in StreamTasks :
        (stask[i].cancelAccepted /\ stask[i].term # "none")
            => stask[i].term = "cancelled"

\* C9: once a client has disconnected, every request of that client that is
\* still streaming is marked cancelled and the client is not subscribed to it.
C9_DisconnectCancelsAll ==
    \A c \in Clients : \A i \in StreamTasks :
        (conn[c] = "closed" /\ stask[i].client = c /\ stask[i].term = "none")
            => /\ stask[i].rid \in cancelled
               /\ c \notin Subscribers(stask[i].rid)

\* the step in which the producer of task i raises
RaiseStep(i) == stask[i].pc = "run" /\ stask'[i].term = "error"

\* the step in which task i, ended by an error, runs its finally clause
ErrorFinallyStep(i) ==
    stask[i].pc = "finally" /\ stask[i].term = "error" /\ stask'[i].pc = "over"

\* the step in which a chat of a client that got an error starts task i
LaterChatStep(i) ==
    stask[i].pc = "none" /\ stask'[i].pc = "run" /\ stask'[i].client \in hadError

\* what C10 says of the steps of a stream task
C10_Steps ==
    \A i \in StreamTasks :
        /\ RaiseStep(i) =>
              /\ (Delivered(stask[i].client) /\ WellFormed(frames[stask[i].client][stask[i].rid]))
                    => frames'[stask[i].client][stask[i].rid] =
                          Append(frames[stask[i].client][stask[i].rid],
                                 [type |-> "error", index |-> NoIndex])
              /\ clients' = clients /\ client' = client /\ conn' = conn
        /\ ErrorFinallyStep(i) =>
              /\ stask[i].rid \notin DOMAIN activeStreams'
              /\ stask[i].client \notin SubscribersIn(requestClients', stask[i].rid)
              /\ clients' = clients /\ conn' = conn
              /\ stask[i].client \in clients => client'[stask[i].client].state = "connected"
        /\ LaterChatStep(i) =>
              /\ stask'[i].count = 0 /\ stask'[i].term = "none"
              /\ stask'[i].rid \in DOMAIN activeStreams'
              /\ activeStreams'[stask'[i].rid] = i
              /\ stask'[i].client \in SubscribersIn(requestClients', stask'[i].rid)
              /\ client'[stask'[i].client].state = "streaming"

\* a chat made after an error, with no cancel pending or accepted for its
\* request id and its client connected, does not end cancelled
C10_LaterChat ==
    \A i \in StreamTasks :
        (/\ stask[i].afterError
         /\ ~stask[i].flagged /\ ~stask[i].cancelAccepted
         /\ conn[stask[i].client] = "registered")
            => stask[i].term # "cancelled"

C8_CapacityBound == Cardinality(clients) <= MaxConnections

\* the subscriber sets that hold client c
SetsHolding(c) == {r \in DOMAIN requestClients : c \in requestClients[r]}

\* C11: a client to which sends fail is disconnected exactly once, however
\* many sends and pings fail and whether or not the handler's own disconnect
\* coincides: its transport is closed at most once and on_disconnect called
\* at most once, and when a disconnect made for a failed send has returned,
\* the transport has been closed once, the callback called once, and the
\* client is in neither the registry nor any subscriber set.
C11_DisconnectedOnce ==
    /\ \A c \in Clients : closes[c] <= 1 /\ callbacks[c] <= 1
    /\ \A k \in Callers :
          caller[k].pc = "done" =>
              /\ closes[caller[k].target] = 1
              /\ callbacks[caller[k].target] = 1
              /\ caller[k].target \notin clients
              /\ SetsHolding(caller[k].target) = {}

\* two failed sends to one subscribed client and the handler's disconnect have
\* all returned
C11_Witness ==
    \E c \in Clients :
        /\ \A k \in Callers : caller[k].pc = "done" /\ caller[k].target = c
        /\ conn[c] = "closed"
        /\ client[c].current # NoRequest
        /\ closes[c] = 1

\* the step of an unsubscribe(c, r) that changes something
UnsubscribeStep(c, r) ==
    /\ requestClients' = Unsubscribed(c, r)
    /\ UNCHANGED <<conn, clients, mgrLock, caller>>

\* a subscriber is registered, or its disconnect has not yet completed
SubscribersRegistered ==
    \A c \in Clients :
        SetsHolding(c) # {} => c \in clients \/ client[c].state = "closing"

\* C12: after unsubscribe(c, r) client c is not in r's subscriber set, and
\* once disconnect(c) has completed c is in no subscriber set: no subscriber
\* set holds a client that is not registered, but for the client whose
\* disconnect is under way.
C12_NoStaleSubscriber ==
    /\ []SubscribersRegistered
    /\ [][\A c \in Clients, r \in RequestIds :
            UnsubscribeStep(c, r) => c \notin SubscribersIn(requestClients', r)]_vars

\* a client that was subscribed has been disconnected, and another client is
\* still subscribed to the same request
C12_Witness ==
    \E c \in Clients, d \in Clients :
        /\ c \notin clients /\ closes[c] = 1 /\ client[c].state = "closed"
        /\ client[c].current # NoRequest
        /\ d \in clients
        /\ d \in Subscribers(client[c].current)

(***************************************************************************)
(* Claims about the chat-completion handlers.                              *)
(***************************************************************************)

\* C7: a chat-completion request from an identity whose quota is exhausted is
\* never routed to a model.
C7_ExhaustedNotRouted == apiLast.exhausted => apiLast.model \notin Models

(***************************************************************************)
(* Claims about the cache.                                                 *)
(***************************************************************************)

\* the age of the entry the last get found, at the time of the get
GotAge == kvGot.at - kvGot.before.created

\* C18: for an entry stored with TTL tau, a get made at age <= tau returns the
\* entry's value, and a get made at age > tau reports the key absent and
\* removes the entry.
C18_TtlExpiry ==
    (kvGot.key # NoKey /\ kvGot.before.has) =>
        /\ GotAge <= kvGot.before.ttl =>
               kvGot.hit /\ kvGot.value = kvGot.before.value
        /\ GotAge > kvGot.before.ttl =>
               ~kvGot.hit /\ ~kvStore[kvGot.key].has

\* a get of an entry with a positive TTL at exactly that age was a hit, or a
\* get of an entry older than its TTL was a miss
C18_Witness ==
    /\ kvGot.key # NoKey
    /\ kvGot.before.has
    /\ kvGot.before.ttl > 0
    /\ \/ GotAge = kvGot.before.ttl /\ kvGot.hit
       \/ GotAge > kvGot.before.ttl /\ ~kvGot.hit

\* the value stored under k, 0 when there is none
StoredValue(k) == IF kvStore[k].has THEN kvStore[k].value ELSE 0

\* C19: increment is atomic: once n increments of a key by 1 have returned
\* and none is in progress, the key holds its initial value plus n, and the
\* n calls returned n distinct values.
C19_AtomicIncrement ==
    \A k \in CacheKeys :
        (\A t \in Tasks : incr[t].key # k) =>
            /\ StoredValue(k) = Len(incrRet[k])
            /\ \A i, j \in 1..Len(incrRet[k]) :
                   i # j => incrRet[k][i] # incrRet[k][j]

(***************************************************************************)
(* Claims about the budget manager.                                        *)
(***************************************************************************)

\* the spend of period p reaches its limit, or would pass it with the cost c
Denies(p, c) ==
    /\ budget.limit[p] > 0
    /\ \/ PeriodSpend(p) >= budget.limit[p]
       \/ PeriodSpend(p) + c > budget.limit[p]

\* C20: check_budget_allowed(cost) returns false exactly when enforcement is
\* hard and some period with a positive limit has its spend at or above the
\* limit, or its spend plus the cost above the limit.
C20_DeniedIffOverLimit ==
    verdict.called =>
        (~verdict.allowed <=>
            budget.hard_limit /\ \E p \in BudgetPeriods : Denies(p, verdict.cost))

\* a request under hard enforcement was refused only for its own cost, next
\* to a disabled period whose spend is positive
C20_Witness ==
    /\ verdict.called
    /\ ~verdict.allowed
    /\ budget.hard_limit
    /\ Exceeded = {}
    /\ \E p \in BudgetPeriods : budget.limit[p] = 0 /\ PeriodSpend(p) > 0

(***************************************************************************)
(* Claims about the analytics collector.                                   *)
(***************************************************************************)

\* C21: every event passed to record_routing is written to the event table
\* exactly once: it never has two rows, and it has one unless it still waits
\* in the buffer, also when record_routing runs while another thread flushes.
C21_WrittenExactlyOnce ==
    \A ev \in 1..recorded :
        /\ written[ev] <= 1
        /\ written[ev] = 0 => ev \in Range(buffer)

\* a read-path query reports every event recorded before it was called
ReadsFresh == lastRead.called => (1..lastRead.before) \subseteq lastRead.seen

\* C22: flush runs on buffer fill, before every read-path query and at
\* shutdown: a read reports every event recorded before it, and after
\* shutdown every recorded event is in the event table.
C22_FlushedAtShutdown ==
    /\ ReadsFresh
    /\ down => \A ev \in 1..recorded : written[ev] > 0

(***************************************************************************)
(* Claims about the HTTP client.                                           *)
(***************************************************************************)

\* the outcome is a 429 response
RateLimited(o) == o.kind = "response" /\ o.status = 429

\* the outcome is a 429, a 5xx, a timeout or a connection error
Transient(o) ==
    \/ RateLimited(o)
    \/ o.kind = "response" /\ o.status \in 500..599
    \/ o.kind = "timeout"
    \/ o.kind = "connect"

\* C23: request makes at most max_retries + 1 attempts; an attempt is followed
\* by another only after a 429, a 5xx, a timeout or a connection error and
\* after a sleep, of the Retry-After seconds after a 429 and of
\* backoff_factor * 2^attempt otherwise; the last attempt is followed by no
\* retry but by a raise; any other response is returned at once.
C23_BoundedRetries ==
    LET n == Len(http.log)
    IN  /\ n <= MaxRetries + 1
        /\ \A i \in 1..n :
               LET o == http.log[i].outcome
                   w == http.log[i].wait
                   retried == i < n \/ http.pc \in {"sleeping", "attempting"}
               IN  /\ retried => Transient(o) /\ i <= MaxRetries /\ w # NoSleep
                   /\ retried /\ RateLimited(o) /\ o.header # NoHeader
                          => w = o.header
                   /\ retried /\ ~RateLimited(o) => w = BackoffFactor * 2^(i - 1)
                   /\ ~retried /\ Transient(o)
                          => i = MaxRetries + 1 /\ http.pc = "raised"
                   /\ ~retried /\ o.kind = "response" /\ ~Transient(o)
                          => http.pc = "returned"
        /\ http.pc = "returned" =>
               n > 0 /\ http.log[n].outcome.kind = "response"
                     /\ ~Transient(http.log[n].outcome)

\* every attempt was made: a 429 with a Retry-After header, a 5xx, and a
\* timeout were retried, and the last attempt ended in a raise
C23_Witness ==
    /\ http.pc = "raised"
    /\ Len(http.log) = MaxRetries + 1
    /\ \E i \in 1..MaxRetries : http.log[i].outcome.header > 0
    /\ \E i \in 1..MaxRetries : http.log[i].outcome.status = 503
    /\ \E i \in 1..MaxRetries : http.log[i].outcome.kind = "timeout"

(***************************************************************************)
(* Claims about the offline cache.                                         *)
(***************************************************************************)

\* C24: retrieve(source, max_age_hours = m) returns no entry older than m
\* hours, for every m including 0; retrieve_stale returns the payload of the
\* most recent store, whatever its age.
C24_RetrieveFresh ==
    /\ retrieved.kind = "retrieve" /\ retrieved.hit /\ retrieved.maxAge # NoMaxAge
           => retrieved.age <= retrieved.maxAge
    /\ retrieved.kind = "stale" /\ lastStore.has
           => retrieved.hit /\ retrieved.data = lastStore.data

(***************************************************************************)
(* Claims about reset_quota, the window of consume and update_config       *)
(***************************************************************************)
\* the check_quota returned last was made after the reset_quota made last
\* had returned, for the same key, and no consume_quota for that key was
\* under way at the reset or has started since
CheckedAfterReset ==
    /\ quotaReport.called
    /\ quotaReport.afterReset
    /\ resetMark.done
    /\ resetMark.quiet
    /\ resetMark.key = quotaReport.key
    /\ resetMark.started = stats[quotaReport.key].started

\* C25: after reset_quota(k), with no consume for k in between, check_quota(k)
\* reports a remaining equal to the configured limit in every enabled window.
C25_ResetRestoresLimit ==
    CheckedAfterReset =>
        \A l \in Limiters :
            config[l] > 0 => quotaReport.remaining[l] = requests[l]

\* such a check of a key that had an admission in the current windows
C25_Witness ==
    /\ CheckedAfterReset
    /\ stats[quotaReport.key].allowed > 0
    /\ now = 0

\* C27: a quota window whose configured limit is 0 is disabled and never causes
\* a denial, whether the 0 was configured at initialisation or set later
\* through update_config on a manager that was enforcing that window.
C27_ZeroLimitDisabled ==
    \A t \in Tasks :
        (task[t].phase = "done" /\ task[t].mode = "quota") =>
            \A l \in task[t].denied : requests[l] > 0

\* C26: a consume on a key that has limit admissions in the current window is
\* denied with a retry_after above 0, and a consume made once fewer than limit
\* admissions are inside the window, the older ones being more than
\* window_seconds old, is admitted again.
C26_WindowRefills ==
    [][\A t \in Tasks :
          (task[t].phase = "lock" /\ task[t].mode = "limiter"
              /\ task'[t] # task[t]) =>
              IF AdmittedIn(task[t].key, now) >= config["minute"]
              THEN /\ task'[t].phase = "done"
                   /\ ~task'[t].allowed
                   /\ task'[t].retry > 0
              ELSE task'[t].phase = "write"]_vars

\* one consume was denied with a retry_after and another has been admitted
\* after the limit was used up, the oldest admission being out of the window
C26_Witness ==
    \E t, u \in Tasks, k \in Keys :
        /\ task[t].phase = "done" /\ ~task[t].allowed /\ task[t].retry > 0
        /\ task[u].phase = "done" /\ task[u].allowed /\ task[u].mode = "limiter"
        /\ Len(admLog[k]) > config["minute"]
        /\ now - admLog[k][1] > MinuteWindow

(***************************************************************************)
(* Claims about the connection manager's mutex and callbacks               *)
(***************************************************************************)
\* C28: every mutation of the client registry and of the request-to-subscribers
\* map is performed while holding the manager's mutex; so while one task holds
\* the mutex over a step, that step, made by another task, changes neither.
C28_MutationsUnderLock ==
    [][(mgrLock # NoClient /\ mgrLock' = mgrLock) =>
           (clients' = clients /\ requestClients' = requestClients)]_vars

\* C29: the on_connect and on_disconnect callbacks are invoked only after the
\* registry update is complete and while the mutex is not held, so that a
\* callback that calls back into the manager does not wait forever.
C29_CallbacksOutsideLock ==
    \A c \in Clients :
        /\ conn[c] \in InCallback => mgrLock = NoClient
        /\ conn[c] = "awaits_lock" => mgrLock # c

(***************************************************************************)
(* Claims about the cancel message                                         *)
(***************************************************************************)
\* C30: a cancel message from a client affects only the streams that client
\* started: it is never accepted for, and never cancels, a stream of another
\* client.  Here every cancel message comes from the client Canceller.
C30_CancelOwnStreams ==
    \A i \in StreamTasks :
        (stask[i].cancelAccepted \/ stask[i].term = "cancelled") =>
            stask[i].client = Canceller

(***************************************************************************)
(* Claims about the cancellation set                                       *)
(***************************************************************************)
\* C31: once a request's stream has sent its terminal event the request id is
\* no longer in the cancellation set, whenever the cancel came; so every id in
\* the set has a stream that has not sent its terminal event yet.
C31_FlagClearedAtTerminal ==
    \A r \in cancelled : LiveTasks(r) # {}

(***************************************************************************)
(* Claims about the half-open circuit                                      *)
(***************************************************************************)
\* C33: a failure recorded while the circuit is half-open returns it to open
\* with the failure count kept and raised by one, and the circuit is half-open
\* only when a full recovery_timeout has elapsed since the last failure.
C33_HalfOpenFailureReopens ==
    /\ [][\A m \in Models :
            (RecordFailure(m) /\ cb[m].state = "half_open") =>
                /\ cb'[m].state = "open"
                /\ cb'[m].count = cb[m].count + 1
                /\ cb'[m].last = now]_vars
    /\ [](\A m \in Models :
            cb[m].state = "half_open" => now - cb[m].last >= RecoveryTimeout)

\* a circuit that had opened got one more failure at or after its
\* recovery_timeout: it is open, its count above the threshold, and a read
\* made at the instant of that failure has left it open
C33_Witness ==
    \E m \in BreakerModels :
        /\ cb[m].count > FailureThreshold
        /\ cb[m].state = "open"
        /\ cb[m].last = now /\ now >= RecoveryTimeout
        /\ status.model = m /\ status.state = "open"

\* C34: while a circuit is half-open at most one routing decision selects its
\* model before a success or a failure is recorded for it.  Where every route
\* has one candidate, a circuit that a route finds half-open already has been
\* selected by an earlier route with no outcome recorded since, so this route
\* does not select it.
C34_SingleProbe ==
    [][\A m \in Models :
          (cb[m].state = "half_open" /\ Route({m})) =>
              (routed'.ranked = <<>> \/ routed'.ranked[1] # m)]_vars

(***************************************************************************)
(* Claims about recorded usage: update_config and cache failures           *)
(***************************************************************************)
\* C32: update_config does not discard recorded usage, so it never lets a key
\* exceed the window limit: a consume_quota made within a minute of the start
\* is admitted only if fewer than the minute limit in force were admitted
\* before it.
C32_UpdateKeepsUsage ==
    [][\A k \in Keys :
          (/\ now < MinuteWindow
           /\ requests["minute"] > 0
           /\ stats'[k].allowed = stats[k].allowed + 1) =>
              stats[k].allowed < requests["minute"]]_vars

\* C35: the sliding-window bound holds when the cache fails intermittently:
\* at every instant the admissions of a key inside the window ending then do
\* not outnumber the limit.
C35_BoundUnderCacheFailure ==
    \A k \in Keys : AdmittedIn(k, now) <= config["minute"]

\* C36: the list score_models returns is in descending order of composite
\* score with equal composites in ascending order of model id, whatever the
\* order of the candidates passed
C36_RankedByScoreThenId ==
    scored.called =>
        \A i, j \in DOMAIN scored.ranked :
            i < j => \/ scored.ranked[i].score > scored.ranked[j].score
                     \/ /\ scored.ranked[i].score = scored.ranked[j].score
                        /\ scored.ranked[i].id < scored.ranked[j].id

\* C37: resolve returns the smallest canonical id among the catalog entries
\* that tie for the best match (equal to the source after normalization, or
\* of equal best similarity), whatever the iteration order of the catalog
C37_SmallestIdAmongTies ==
    resolved.called =>
        LET m(i) == Match(Normalize(resolved.source),
                          Normalize(resolved.catalog[i].name))
        IN  \A i \in DOMAIN resolved.catalog :
                (\A j \in DOMAIN resolved.catalog : ~ScoreGreater(m(j), m(i)))
                    => resolved.id <= resolved.catalog[i].id

\* C38: a cache built with max_size = M >= 1 never holds more than M entries
\* after a set or a set_many, and every entry evicted to make room had the
\* oldest creation timestamp of the entries held at that moment
C38_MaxSizeEvictsOldest ==
    /\ bounded.max # 0 => Len(bounded.store) <= bounded.max
    /\ \A n \in DOMAIN bounded.evicted :
           \A t \in bounded.evicted[n].among : bounded.evicted[n].created <= t

\* a set on a full cache of two entries created at different times evicted one
C38_Witness ==
    /\ bounded.max = MaxSize
    /\ Len(bounded.store) = bounded.max
    /\ \E n \in DOMAIN bounded.evicted :
           \E t \in bounded.evicted[n].among : bounded.evicted[n].created < t

\* C40: the get_or_set calls for a key, concurrent ones included, call the
\* factory at most once while the value stays live, and all of them return
\* the same value
C40_FactoryOnce ==
    \A k \in CacheKeys : fill.calls[k] <= 1 /\ Cardinality(fill.returned[k]) <= 1

\* C39: when a pass of the heartbeat loop ends, every client registered when
\* the pass began has been sent a ping, and every client whose ping raised is
\* in neither the registry nor any subscriber set
C39_HeartbeatDisconnectsFailed ==
    [][beat'.ticks = beat.ticks + 1 =>
          /\ beat'.pinged = beat'.snapshot
          /\ \A c \in beat'.raised :
                 /\ c \notin clients'
                 /\ \A r \in DOMAIN requestClients' : c \notin requestClients'[r]]_vars

\* a pass over two clients has ended: the ping of one raised while it was
\* subscribed and the heartbeat closed it, the other is still registered
C39_Witness ==
    /\ beat.pc = "sleeping"
    /\ beat.ticks > 0
    /\ Cardinality(beat.snapshot) = 2
    /\ \E c \in beat.raised, d \in beat.snapshot \ beat.raised :
           /\ closes[c] = 1
           /\ conn[c] = "registered"
           /\ requestClients # <<>>
           /\ d \in clients

====
